---- MODULE Spec2Model ----
(***************************************************************************)
(* Model of the DemoBuilder onboarding server: the in-memory OTP and       *)
(* website-analysis stores (server/storage.ts) and the three request       *)
(* handlers of server/routes.ts.  Strings are sequences of one-character   *)
(* strings so that split, toLowerCase, padStart, ... are computed as the   *)
(* code computes them.  A handler is cut into steps at the awaits where    *)
(* shared state is read or written, so that concurrent requests interleave *)
(* the way they do on the Node event loop.                                 *)
(***************************************************************************)
EXTENDS Integers, Sequences, FiniteSets, TLC

(***************************************************************************)
(* Bounds of the model                                                     *)
(***************************************************************************)
\* the clock stops advancing at MaxTime (clock unit: five minutes)
MaxTime == 3
\* auto-increment ids handed out per table stay within 1..MaxRows
MaxRows == 2
\* email domains are put together from at most MaxTokens pieces
MaxTokens == 5
\* texts given to sanitizeText have at most MaxText code points
MaxText == 4
\* the content given to generateWebsitePdf has at most MaxWords words
MaxWords == 45
\* pieces a page content is put together from
MaxFragments == 5
\* child nodes of a page's <body>
MaxChildren == 2

(***************************************************************************)
(* Program constants                                                       *)
(***************************************************************************)
\* routes.ts:69   5 * 60 * 1000 ms, in clock units of five minutes
OtpTtl == 1
\* routes.ts:68   padStart(6, "0")
OtpDigits == 6
\* routes.ts:86   z.string().length(6)
CodeLength == 6
\* pdf.ts:64-66  the A4 page and its margin, in hundredths of a point
PageWidth == 59528
PageHeight == 84189
Margin == 5000

(***************************************************************************)
(* String primitives (JavaScript String methods on character sequences)    *)
(***************************************************************************)
UpperChars == <<"A","B","C","D","E","F","G","H","I","J","K","L","M",
                "N","O","P","Q","R","S","T","U","V","W","X","Y","Z">>
LowerChars == <<"a","b","c","d","e","f","g","h","i","j","k","l","m",
                "n","o","p","q","r","s","t","u","v","w","x","y","z">>
DigitChars == <<"0","1","2","3","4","5","6","7","8","9">>

\* the case mappings of the 26 ASCII letters, as lookup tables
ToLowerTable ==
    [c \in {UpperChars[i] : i \in 1..26} |->
        LowerChars[CHOOSE i \in 1..26 : UpperChars[i] = c]]
ToUpperTable ==
    [c \in {LowerChars[i] : i \in 1..26} |->
        UpperChars[CHOOSE i \in 1..26 : LowerChars[i] = c]]

toLowerChar(c) == IF c \in DOMAIN ToLowerTable THEN ToLowerTable[c] ELSE c

toLowerCase(s) == [i \in 1..Len(s) |-> toLowerChar(s[i])]

RECURSIVE splitFrom(_, _, _, _)
splitFrom(s, sep, i, cur) ==
    IF i > Len(s) THEN <<cur>>
    ELSE IF s[i] = sep THEN <<cur>> \o splitFrom(s, sep, i + 1, <<>>)
    ELSE splitFrom(s, sep, i + 1, Append(cur, s[i]))

\* s.split(sep) for a one-character separator
split(s, sep) == splitFrom(s, sep, 1, <<>>)

\* s.includes(c) for a one-character needle
includes(s, c) == \E i \in 1..Len(s) : s[i] = c

RECURSIVE toDigits(_)
\* String(n) for a natural number n
toDigits(n) ==
    IF n < 10 THEN <<DigitChars[n + 1]>>
    ELSE Append(toDigits(n \div 10), DigitChars[(n % 10) + 1])

RECURSIVE padStart(_, _, _)
\* s.padStart(width, c) for a one-character filler
padStart(s, width, c) ==
    IF Len(s) >= width THEN s ELSE padStart(<<c>> \o s, width, c)

(***************************************************************************)
(* Map primitives (JavaScript Map: set, get, delete, has)                  *)
(***************************************************************************)
EmptyMap == << >>
MapHas(m, k) == k \in DOMAIN m
MapSet(m, k, v) == [x \in (DOMAIN m) \cup {k} |-> IF x = k THEN v ELSE m[x]]
MapDelete(m, k) == [x \in (DOMAIN m) \ {k} |-> m[x]]

(***************************************************************************)
(* routes.ts: deny-list and isCompanyEmail                                 *)
(***************************************************************************)
FREE_EMAIL_DOMAINS ==
    { <<"g","m","a","i","l",".","c","o","m">>,
      <<"y","a","h","o","o",".","c","o","m">>,
      <<"y","a","h","o","o",".","c","o",".","i","n">>,
      <<"o","u","t","l","o","o","k",".","c","o","m">>,
      <<"h","o","t","m","a","i","l",".","c","o","m">>,
      <<"l","i","v","e",".","c","o","m">>,
      <<"m","s","n",".","c","o","m">>,
      <<"i","c","l","o","u","d",".","c","o","m">>,
      <<"m","e",".","c","o","m">>,
      <<"m","a","c",".","c","o","m">>,
      <<"a","o","l",".","c","o","m">>,
      <<"p","r","o","t","o","n",".","m","e">>,
      <<"p","r","o","t","o","n","m","a","i","l",".","c","o","m">>,
      <<"g","m","x",".","c","o","m">>,
      <<"m","a","i","l",".","c","o","m">>,
      <<"z","o","h","o",".","c","o","m">>,
      <<"y","a","n","d","e","x",".","c","o","m">>,
      <<"h","e","y",".","c","o","m">>,
      <<"d","u","c","k",".","c","o","m">> }

\* isCompanyEmail comparing the domain as typed, without toLowerCase
isCompanyEmail_CaseSensitive(email) ==
    LET parts == split(email, "@") IN
    IF Len(parts) # 2 THEN FALSE
    ELSE LET domain == parts[2] IN
         IF ~includes(domain, ".") THEN FALSE
         ELSE domain \notin FREE_EMAIL_DOMAINS

isCompanyEmail(email) ==
    LET parts == split(email, "@") IN
    IF Len(parts) # 2 THEN FALSE
    ELSE LET domain == toLowerCase(parts[2]) IN
         IF ~includes(domain, ".") THEN FALSE
         ELSE domain \notin FREE_EMAIL_DOMAINS

\* z.string().email(): one "@", a non-empty local part, a domain of
\* non-empty dot-separated labels whose last label has two characters or more
zodEmail(email) ==
    LET parts == split(email, "@") IN
    /\ Len(parts) = 2
    /\ Len(parts[1]) > 0
    /\ LET labels == split(parts[2], ".") IN
       /\ Len(labels) >= 2
       /\ \A i \in 1..Len(labels) : Len(labels[i]) > 0
       /\ Len(labels[Len(labels)]) >= 2

\* z.string().length(6)
zodCode(code) == Len(code) = CodeLength

(***************************************************************************)
(* storage.ts: MemStorage OTP methods, as functions of the map and clock   *)
(***************************************************************************)
\* the store holding one record for all emails
saveOtp_SingleSlot(m, email, code, expiresAt) ==
    MapSet(EmptyMap, toLowerCase(email), [code |-> code, expiresAt |-> expiresAt])

\* saveOtp with the address as typed for the key
saveOtp_KeyAsTyped(m, email, code, expiresAt) ==
    MapSet(m, email, [code |-> code, expiresAt |-> expiresAt])

\* saveOtp leaving a record that is already there as it is
saveOtp_KeepsExisting(m, email, code, expiresAt) ==
    IF MapHas(m, toLowerCase(email)) THEN m
    ELSE MapSet(m, toLowerCase(email), [code |-> code, expiresAt |-> expiresAt])

saveOtp(m, email, code, expiresAt) ==
    MapSet(m, toLowerCase(email), [code |-> code, expiresAt |-> expiresAt])

\* verifyOtpResult without the expiry test
verifyOtpResult_IgnoresExpiry(m, email, code, t) ==
    LET k == toLowerCase(email) IN
    IF ~MapHas(m, k) THEN FALSE
    ELSE m[k].code = code

\* verifyOtpResult with the expiry test written now >= expiresAt
verifyOtpResult_ExpiresEarly(m, email, code, t) ==
    LET k == toLowerCase(email) IN
    IF ~MapHas(m, k) THEN FALSE
    ELSE IF t >= m[k].expiresAt THEN FALSE
    ELSE m[k].code = code

\* the value verifyOtp returns
verifyOtpResult(m, email, code, t) ==
    LET k == toLowerCase(email) IN
    IF ~MapHas(m, k) THEN FALSE
    ELSE IF t > m[k].expiresAt THEN FALSE
    ELSE m[k].code = code

\* verifyOtpStore without the one-time-use delete
verifyOtpStore_KeepsOnSuccess(m, email, code, t) ==
    LET k == toLowerCase(email) IN
    IF ~MapHas(m, k) THEN m
    ELSE IF t > m[k].expiresAt THEN MapDelete(m, k)
    ELSE m

\* verifyOtpStore deleting the record on any attempt
verifyOtpStore_EvictsOnMismatch(m, email, code, t) ==
    LET k == toLowerCase(email) IN
    IF ~MapHas(m, k) THEN m ELSE MapDelete(m, k)

\* the map verifyOtp leaves behind
verifyOtpStore(m, email, code, t) ==
    LET k == toLowerCase(email) IN
    IF ~MapHas(m, k) THEN m
    ELSE IF t > m[k].expiresAt THEN MapDelete(m, k)
    ELSE IF m[k].code = code THEN MapDelete(m, k)
    ELSE m

\* hasActiveOtp with the expiry test written now < expiresAt
hasActiveOtp_Strict(m, email, t) ==
    LET k == toLowerCase(email) IN
    IF ~MapHas(m, k) THEN FALSE
    ELSE t < m[k].expiresAt

\* the value hasActiveOtp returns
hasActiveOtp(m, email, t) ==
    LET k == toLowerCase(email) IN
    IF ~MapHas(m, k) THEN FALSE
    ELSE t <= m[k].expiresAt

\* hasActiveOtp evicting a stale record, the way verifyOtp does
hasActiveOtpStore_Evicts(m, email, t) ==
    LET k == toLowerCase(email) IN
    IF MapHas(m, k) /\ t > m[k].expiresAt THEN MapDelete(m, k) ELSE m

\* the map hasActiveOtp leaves behind: it only reads
hasActiveOtpStore(m, email, t) == m

\* saveWebsiteAnalysis keeping the analysis already stored for the email
saveWebsiteAnalysis_KeepsFirst(m, email, analysis) ==
    IF MapHas(m, toLowerCase(email)) THEN m
    ELSE MapSet(m, toLowerCase(email), analysis)

saveWebsiteAnalysis(m, email, analysis) ==
    MapSet(m, toLowerCase(email), analysis)

\* getWebsiteAnalysis answering with an empty analysis when none is stored
getWebsiteAnalysis_Fallback(m, email) ==
    LET k == toLowerCase(email) IN
    IF MapHas(m, k) THEN m[k]
    ELSE [ domain |-> <<>>, title |-> <<>>, description |-> "", content |-> "",
           instruction |-> <<>>, knowledgeBase |-> <<>> ]

\* getWebsiteAnalysis: the stored analysis, or Undefined
Undefined == [undefined |-> TRUE]
getWebsiteAnalysis(m, email) ==
    LET k == toLowerCase(email) IN
    IF MapHas(m, k) THEN m[k] ELSE Undefined

(***************************************************************************)
(* WebsiteCrawler (services/websiteCrawler.ts)                             *)
(***************************************************************************)
toUpperChar(c) == IF c \in DOMAIN ToUpperTable THEN ToUpperTable[c] ELSE c

startsWith(s, prefix) ==
    /\ Len(s) >= Len(prefix)
    /\ \A i \in 1..Len(prefix) : s[i] = prefix[i]

\* the part after the first "@"; <<>> stands for undefined / empty
crawlerDomainOf(email) ==
    LET parts == split(email, "@") IN
    IF Len(parts) >= 2 THEN parts[2] ELSE <<>>

buildWebsiteUrl(domain) ==
    IF startsWith(domain, <<"w","w","w",".">>)
    THEN <<"h","t","t","p","s",":","/","/">> \o domain
    ELSE <<"h","t","t","p","s",":","/","/","w","w","w",".">> \o domain

\* s.replace(/[-_]+/g, " "): every run of "-" and "_" becomes one space
RECURSIVE replaceDashRuns(_, _)
replaceDashRuns(s, i) ==
    IF i > Len(s) THEN <<>>
    ELSE IF s[i] \in {"-", "_"}
         THEN IF i > 1 /\ s[i - 1] \in {"-", "_"}
              THEN replaceDashRuns(s, i + 1)
              ELSE <<" ">> \o replaceDashRuns(s, i + 1)
         ELSE <<s[i]>> \o replaceDashRuns(s, i + 1)

RECURSIVE trimStart(_)
trimStart(s) == IF s # <<>> /\ s[1] = " " THEN trimStart(Tail(s)) ELSE s
RECURSIVE trimEnd(_)
trimEnd(s) ==
    IF s # <<>> /\ s[Len(s)] = " " THEN trimEnd(SubSeq(s, 1, Len(s) - 1)) ELSE s
\* s.trim()
trim(s) == trimEnd(trimStart(s))

\* words.join(sep) for a one-character separator
RECURSIVE join(_, _)
join(ws, sep) ==
    IF ws = <<>> THEN <<>>
    ELSE IF Len(ws) = 1 THEN ws[1]
    ELSE ws[1] \o <<sep>> \o join(Tail(ws), sep)

\* words.filter(Boolean)
filterNonEmpty(ws) == SelectSeq(ws, LAMBDA w : w # <<>>)

\* word.charAt(0).toUpperCase() + word.slice(1)
capitalize(w) == IF w = <<>> THEN <<>> ELSE <<toUpperChar(w[1])>> \o Tail(w)

deriveTitleFromDomain(domain) ==
    LET withoutWww ==
            IF startsWith(toLowerCase(domain), <<"w","w","w",".">>)
            THEN SubSeq(domain, 5, Len(domain)) ELSE domain
        first == split(withoutWww, ".")[1]
        base == IF first # <<>> THEN first
                ELSE IF withoutWww # <<>> THEN withoutWww ELSE domain
        withSpaces == trim(replaceDashRuns(base, 1))
        ws == filterNonEmpty(split(withSpaces, " "))
        titleCased == join([i \in 1..Len(ws) |-> capitalize(ws[i])], " ")
    IN  IF titleCased # <<>> THEN titleCased ELSE domain

Untitled == <<"U","n","t","i","t","l","e","d">>

\* extractContent: title falls back from <title> to the first <h1> to "Untitled"
extractTitle(page) ==
    IF trim(page.title) # <<>> THEN trim(page.title)
    ELSE IF trim(page.h1) # <<>> THEN trim(page.h1)
    ELSE Untitled

\* the same with the extracted title compared with "Untitled" as it is spelled
analysisOf_CaseSensitive(domain, page) ==
    LET title == extractTitle(page)
        finalTitle == IF title # <<>> /\ title # Untitled
                      THEN title ELSE deriveTitleFromDomain(domain)
    IN  [ domain        |-> domain,
          title         |-> finalTitle,
          description   |-> page.description,
          content       |-> page.content,
          instruction   |-> <<"instruction", finalTitle, page.content>>,
          knowledgeBase |-> <<"knowledgeBase", finalTitle, page.description, page.content>> ]

\* the WebsiteAnalysis built from a fetched page
analysisOf(domain, page) ==
    LET title == extractTitle(page)
        finalTitle == IF title # <<>> /\ toLowerCase(title) # toLowerCase(Untitled)
                      THEN title ELSE deriveTitleFromDomain(domain)
    IN  [ domain        |-> domain,
          title         |-> finalTitle,
          description   |-> page.description,
          content       |-> page.content,
          instruction   |-> <<"instruction", finalTitle, page.content>>,
          knowledgeBase |-> <<"knowledgeBase", finalTitle, page.description, page.content>> ]

(***************************************************************************)
(* services/pdf.ts: the artifact file                                      *)
(***************************************************************************)
AlnumLowerChars == {LowerChars[i] : i \in 1..26} \cup {DigitChars[i] : i \in 1..10}
isAlnumLower(c) == c \in AlnumLowerChars

\* .replace(/[^a-z0-9]+/g, "-"): every run of other characters becomes one "-"
RECURSIVE replaceNonAlnumRuns(_, _)
replaceNonAlnumRuns(s, i) ==
    IF i > Len(s) THEN <<>>
    ELSE IF ~isAlnumLower(s[i])
         THEN IF i > 1 /\ ~isAlnumLower(s[i - 1])
              THEN replaceNonAlnumRuns(s, i + 1)
              ELSE <<"-">> \o replaceNonAlnumRuns(s, i + 1)
         ELSE <<s[i]>> \o replaceNonAlnumRuns(s, i + 1)

RECURSIVE trimDashes(_)
\* .replace(/^-+|-+$/g, "")
trimDashes(s) ==
    IF s # <<>> /\ s[1] = "-" THEN trimDashes(Tail(s))
    ELSE IF s # <<>> /\ s[Len(s)] = "-" THEN trimDashes(SubSeq(s, 1, Len(s) - 1))
    ELSE s

slugify(input) == trimDashes(replaceNonAlnumRuns(toLowerCase(input), 1))

\* the path generateWebsitePdf writes: knowledge_<slug>_<Date.now()>.pdf
pdfPathOf(domain, t) == [slug |-> slugify(domain), stamp |-> t]

\* Text handed to the artifact generator is a sequence of code points: an
\* ASCII character stands for itself, any other code point is written
\* "U+hex" and has its number in CodePoints.
CodePoints ==
    [c \in {"U+00A0", "U+3000", "U+2003", "U+200B", "U+2014", "U+2028",
            "U+2600", "U+2708", "U+1F004", "U+1F0A1", "U+1F100", "U+1F600",
            "U+1F680"} |->
        CASE c = "U+00A0"  -> 160
          [] c = "U+3000"  -> 12288
          [] c = "U+2003"  -> 8195
          [] c = "U+200B"  -> 8203
          [] c = "U+2014"  -> 8212
          [] c = "U+2028"  -> 8232
          [] c = "U+2600"  -> 9728
          [] c = "U+2708"  -> 9992
          [] c = "U+1F004" -> 126980
          [] c = "U+1F0A1" -> 127137
          [] c = "U+1F100" -> 127232
          [] c = "U+1F600" -> 128512
          [] c = "U+1F680" -> 128640]

\* c is matched by the class [\u{lo}-\u{hi}] of a /u pattern
inRange(c, lo, hi) == c \in DOMAIN CodePoints /\ CodePoints[c] \in lo..hi

\* c is matched by \s, and removed by trim(): WhiteSpace and LineTerminator
isWhitespace(c) ==
    \/ c \in {" ", "\t", "\n", "\r"}
    \/ /\ c \in DOMAIN CodePoints
       /\ CodePoints[c] \in {160, 5760, 8232, 8233, 8239, 8287, 12288, 65279}
                             \cup (8192..8202)

\* text.replace(/[\u{lo}-\u{hi}]/gu, replacement), for a replacement of no
\* or one character
replaceRange(text, lo, hi, replacement) ==
    IF replacement = <<>>
    THEN SelectSeq(text, LAMBDA c : ~inRange(c, lo, hi))
    ELSE [i \in 1..Len(text) |->
            IF inRange(text[i], lo, hi) THEN replacement[1] ELSE text[i]]

\* text.replace(/\s+/g, " "): the first character of every run of
\* whitespace becomes a space, the rest of the run goes
normalizeWhitespace(text) ==
    LET kept == [i \in 1..Len(text) |->
                    IF ~isWhitespace(text[i]) THEN <<text[i]>>
                    ELSE IF i > 1 /\ isWhitespace(text[i - 1]) THEN <<>>
                    ELSE <<" ">>]
        one == SelectSeq(kept, LAMBDA piece : piece # <<>>)
    IN  [i \in 1..Len(one) |-> one[i][1]]

\* text.trim(): from the first to the last character that is not whitespace
trimWhitespace(text) ==
    LET n == Len(text)
        reversed == [i \in 1..n |-> text[n + 1 - i]]
        firstInk(t) == CHOOSE i \in 1..n :
                          ~isWhitespace(t[i]) /\ \A k \in 1..(i - 1) : isWhitespace(t[k])
    IN  IF \A i \in 1..n : isWhitespace(text[i]) THEN <<>>
        ELSE SubSeq(text, firstInk(text), n + 1 - firstInk(reversed))

\* the same chain with the whitespace normalization run first
sanitizeText_WhitespaceFirst(text) ==
    LET s0 == normalizeWhitespace(text)
        s1 == replaceRange(s0, 127744, 129535, <<>>)
        s2 == replaceRange(s1, 9728, 9983, <<>>)
        s3 == replaceRange(s2, 9984, 10175, <<>>)
        s4 == replaceRange(s3, 126976, 127023, <<>>)
        s5 == replaceRange(s4, 127136, 127231, <<>>)
        s6 == replaceRange(s5, 127232, 128591, <<>>)
        s7 == replaceRange(s6, 128592, 129535, <<>>)
        s8 == replaceRange(s7, 8192, 8303, <<" ">>)
        s9 == replaceRange(s8, 8232, 8233, <<"\n">>)
    IN  trimWhitespace(s9)

\* pdf.ts:26-40; the ranges are those of the patterns, in decimal
sanitizeText(text) ==
    LET s1 == replaceRange(text, 127744, 129535, <<>>)  \* 1F300-1F9FF
        s2 == replaceRange(s1, 9728, 9983, <<>>)        \* 2600-26FF
        s3 == replaceRange(s2, 9984, 10175, <<>>)       \* 2700-27BF
        s4 == replaceRange(s3, 126976, 127023, <<>>)    \* 1F000-1F02F
        s5 == replaceRange(s4, 127136, 127231, <<>>)    \* 1F0A0-1F0FF
        s6 == replaceRange(s5, 127232, 128591, <<>>)    \* 1F100-1F64F
        s7 == replaceRange(s6, 128592, 129535, <<>>)    \* 1F650-1F9FF
        s8 == replaceRange(s7, 8192, 8303, <<" ">>)     \* 2000-206F
        s9 == replaceRange(s8, 8232, 8233, <<"\n">>)    \* 2028-2029
    IN  trimWhitespace(normalizeWhitespace(s9))

\* text.split(/\s+/): the pieces between the runs of whitespace
RECURSIVE splitWhitespaceFrom(_, _)
splitWhitespaceFrom(text, i) ==
    LET n == Len(text) IN
    IF \A j \in i..n : ~isWhitespace(text[j]) THEN <<SubSeq(text, i, n)>>
    ELSE LET j == CHOOSE j \in i..n :
                     isWhitespace(text[j]) /\ \A k \in i..(j - 1) : ~isWhitespace(text[k])
             rest == IF \A k \in j..n : isWhitespace(text[k]) THEN n + 1
                     ELSE CHOOSE k \in j..n :
                             ~isWhitespace(text[k]) /\ \A m \in j..(k - 1) : isWhitespace(text[m])
         IN  <<SubSeq(text, i, j - 1)>> \o splitWhitespaceFrom(text, rest)
splitWhitespace(text) == splitWhitespaceFrom(text, 1)

\* the loop of wrapText over words[i..], with the line being filled and the
\* lines pushed so far
RECURSIVE wrapWords(_, _, _, _, _)
wrapWords(words, i, current, lines, maxCharsPerLine) ==
    IF i > Len(words)
    THEN IF current # <<>> THEN Append(lines, current) ELSE lines
    ELSE LET word == words[i]
             candidate == IF current # <<>> THEN current \o <<" ">> \o word ELSE word
         IN  IF Len(candidate) > maxCharsPerLine
             THEN wrapWords(words, i + 1, word,
                            IF current # <<>> THEN Append(lines, current) ELSE lines,
                            maxCharsPerLine)
             ELSE wrapWords(words, i + 1, candidate, lines, maxCharsPerLine)

\* pdf.ts:42-58
wrapText(text, maxCharsPerLine) ==
    wrapWords(splitWhitespace(sanitizeText(text)), 1, <<>>, <<>>, maxCharsPerLine)

\* generateWebsitePdf, lengths in hundredths of a point
TitleSize == 1800
HeadingSize == 1400
BodySize == 1100
LineHeight == 1400
DefaultMaxLines == 10000
contentWidth == PageWidth - Margin * 2
\* Math.floor(contentWidth / (bodySize * 0.55))
approxCharsPerLine == contentWidth \div ((BodySize * 55) \div 100)

\* `${sanitizedTitle} - Website Knowledge Base`, the dash being U+2014
headerText(title) ==
    sanitizeText(title) \o
    <<" ","U+2014"," ","W","e","b","s","i","t","e"," ","K","n","o","w","l","e","d","g","e",
      " ","B","a","s","e">>

\* the four drawSection calls, pdf.ts:114-117
SectionHeadings ==
    << <<"D","o","m","a","i","n">>,
       <<"D","e","s","c","r","i","p","t","i","o","n">>,
       <<"C","o","n","t","e","n","t"," ","(","e","x","c","e","r","p","t",")">>,
       <<"K","n","o","w","l","e","d","g","e"," ","B","a","s","e">> >>
sectionBody(input, k) ==
    CASE k = 1 -> input.domain
      [] k = 2 -> input.description
      [] k = 3 -> input.content
      [] k = 4 -> input.knowledgeBase

\* text.replace(/\n+/g, "\n"): a run of line feeds becomes one
replaceNewlineRuns(text) ==
    LET kept == SelectSeq([i \in 1..Len(text) |->
                              IF text[i] = "\n" /\ i > 1 /\ text[i - 1] = "\n"
                              THEN <<>> ELSE <<text[i]>>],
                          LAMBDA piece : piece # <<>>)
    IN  [i \in 1..Len(kept) |-> kept[i][1]]

\* the parsed page: a text node is [text |-> characters], an element is
\* [tag |-> name, class |-> its class names, kids |-> its child nodes]
isTextNode(n) == "text" \in DOMAIN n

RECURSIVE concatAll(_)
concatAll(texts) ==
    IF texts = <<>> THEN <<>> ELSE texts[1] \o concatAll(Tail(texts))

\* cheerio's text() of one node: the text of its descendants in document order
RECURSIVE textOf(_)
textOf(n) ==
    IF isTextNode(n) THEN n.text
    ELSE concatAll([i \in 1..Len(n.kids) |-> textOf(n.kids[i])])

\* $('script, style, nav, footer, header, .nav, .footer, .header')
isRemoved(n) ==
    /\ ~isTextNode(n)
    /\ \/ n.tag \in {"script", "style", "nav", "footer", "header"}
       \/ n.class \cap {"nav", "footer", "header"} # {}

\* .remove(): the matched elements leave the tree with all they hold
RECURSIVE removeElements(_)
removeElements(n) ==
    IF isTextNode(n) THEN n
    ELSE LET kept == SelectSeq(n.kids, LAMBDA k : ~isRemoved(k))
         IN  [n EXCEPT !.kids = [i \in 1..Len(kept) |-> removeElements(kept[i])]]

\* one element matched by the group 'main, .main, .content, .container, body'
isContainer(n) ==
    /\ ~isTextNode(n)
    /\ \/ n.tag \in {"main", "body"}
       \/ n.class \cap {"main", "content", "container"} # {}

\* the elements of a tree in document order
RECURSIVE elementsOf(_)
elementsOf(n) ==
    IF isTextNode(n) THEN <<>>
    ELSE <<n>> \o concatAll([i \in 1..Len(n.kids) |-> elementsOf(n.kids[i])])

\* $('main, .main, .content, .container, body'): every matched element, once,
\* in document order
selectContainers(root) == SelectSeq(elementsOf(root), isContainer)

\* .text() of a selection: the texts of its elements one after the other
selectionText(selection) ==
    concatAll([i \in 1..Len(selection) |-> textOf(selection[i])])

ContentLimit == 10000

\* .replace(/\s+/g, ' ').replace(/\n+/g, '\n').trim().substring(0, 10000);
\* the second replace finds no line feed after the first
cleanContentOf(mainContent) ==
    LET collapsed == normalizeWhitespace(mainContent)
        lines == replaceNewlineRuns(collapsed)
        trimmed == trimWhitespace(lines)
    IN  SubSeq(trimmed, 1, IF Len(trimmed) < ContentLimit THEN Len(trimmed) ELSE ContentLimit)

\* extractContent's content for the <body> of a page, pdf.ts:190 and 202-207
extractMainContent(body) ==
    cleanContentOf(selectionText(selectContainers(removeElements(body))))

\* String.prototype.includes with a string argument: search occurs in s
includesText(s, search) ==
    \E i \in 1..(Len(s) - Len(search) + 1) :
        SubSeq(s, i, i + Len(search) - 1) = search

\* the keyword families of identifyBusinessType in the order they are tested,
\* pdf.ts:247-261
BusinessKeywords ==
    <<
       { <<"f","i","n","a","n","c","i","a","l">>,
         <<"b","a","n","k">>,
         <<"i","n","v","e","s","t","m","e","n","t">>,
         <<"l","o","a","n">> },
       { <<"h","e","a","l","t","h">>,
         <<"m","e","d","i","c","a","l">>,
         <<"c","l","i","n","i","c">>,
         <<"h","o","s","p","i","t","a","l">> },
       { <<"t","e","c","h">>,
         <<"s","o","f","t","w","a","r","e">>,
         <<"d","i","g","i","t","a","l">>,
         <<"a","p","p">> },
       { <<"c","o","n","s","u","l","t","i","n","g">>,
         <<"a","d","v","i","s","o","r","y">>,
         <<"s","t","r","a","t","e","g","y">> },
       { <<"r","e","t","a","i","l">>,
         <<"s","h","o","p">>,
         <<"s","t","o","r","e">>,
         <<"e","c","o","m","m","e","r","c","e">> }
    >>
BusinessSentences ==
    << "This appears to be a financial services company.",
       "This appears to be a healthcare provider.",
       "This appears to be a technology company.",
       "This appears to be a consulting firm.",
       "This appears to be a retail business." >>
GenericSentence == "This appears to be a business providing various services."

\* one if statement of identifyBusinessType: includes(k1) || includes(k2) || ...
familyMatches(contentLower, f) ==
    \E k \in BusinessKeywords[f] : includesText(contentLower, k)

\* the same with the healthcare test moved below the technology test
identifyBusinessType_TechnologyFirst(content) ==
    LET contentLower == toLowerCase(content) IN
    IF familyMatches(contentLower, 1) THEN BusinessSentences[1]
    ELSE IF familyMatches(contentLower, 3) THEN BusinessSentences[3]
    ELSE IF familyMatches(contentLower, 2) THEN BusinessSentences[2]
    ELSE IF familyMatches(contentLower, 4) THEN BusinessSentences[4]
    ELSE IF familyMatches(contentLower, 5) THEN BusinessSentences[5]
    ELSE GenericSentence

\* identifyBusinessType(content, keywords); the keywords argument is not read
identifyBusinessType(content) ==
    LET contentLower == toLowerCase(content) IN
    IF familyMatches(contentLower, 1) THEN BusinessSentences[1]
    ELSE IF familyMatches(contentLower, 2) THEN BusinessSentences[2]
    ELSE IF familyMatches(contentLower, 3) THEN BusinessSentences[3]
    ELSE IF familyMatches(contentLower, 4) THEN BusinessSentences[4]
    ELSE IF familyMatches(contentLower, 5) THEN BusinessSentences[5]
    ELSE GenericSentence

(***************************************************************************)
(* services/ainagerMysql.ts                                                *)
(***************************************************************************)
\* db/mysql.ts: connectionLimit
ConnectionLimit == 5

extractDomainFromEmail(email) ==
    LET parts == split(email, "@") IN
    IF Len(parts) = 2 THEN toLowerCase(parts[2]) ELSE <<>>

\* word.charAt(0).toUpperCase() + word.slice(1).toLowerCase()
capitalizeLower(w) ==
    IF w = <<>> THEN <<>> ELSE <<toUpperChar(w[1])>> \o toLowerCase(Tail(w))

\* the name taken from the last label of the domain instead of the first
buildAinagerNameFromEmail_LastLabel(email) ==
    LET domain == extractDomainFromEmail(email) IN
    IF domain = <<>> THEN <<"a","i","n","a","g","e","r">>
    ELSE LET domainParts == split(domain, ".")
             last == domainParts[Len(domainParts)]
             mainDomain == IF last # <<>> THEN last ELSE domain
             ws == split(replaceDashRuns(mainDomain, 1), " ")
             companyName == trim(join([i \in 1..Len(ws) |-> capitalizeLower(ws[i])], " "))
         IN  IF companyName # <<>> THEN companyName ELSE domain

buildAinagerNameFromEmail(email) ==
    LET domain == extractDomainFromEmail(email) IN
    IF domain = <<>> THEN <<"a","i","n","a","g","e","r">>
    ELSE LET domainParts == split(domain, ".")
             mainDomain == IF domainParts[1] # <<>> THEN domainParts[1] ELSE domain
             ws == split(replaceDashRuns(mainDomain, 1), " ")
             companyName == trim(join([i \in 1..Len(ws) |-> capitalizeLower(ws[i])], " "))
         IN  IF companyName # <<>> THEN companyName ELSE domain

\* the row INSERT INTO chat_ainager writes
ainagerRow(id, name, input, t) ==
    [ ainager_id          |-> id,
      ainager_name        |-> name,
      ainager_description |-> input.websiteDescription,
      ainager_create_date |-> t,
      ainager_type        |-> "company",
      ainager_instruction |-> input.instruction,
      pdf_file            |-> input.pdfFilePath,
      corpmail            |-> input.email,
      is_active           |-> 1 ]

\* the document row with its own id in the tenant column
documentRow_WrongTenant(id, ainagerId, input, t) ==
    [ document_id     |-> id,
      ainager_id      |-> id,
      file            |-> input.pdfFilePath,
      document_type   |-> "PDF",
      title           |-> IF input.companyName # <<>>
                          THEN <<"Knowledge base for", input.companyName>>
                          ELSE <<"Knowledge base", input.websiteDomain>>,
      description     |-> input.websiteDescription,
      llm_description |-> input.knowledgeBase,
      platform        |-> "WEB",
      upload_date     |-> t ]

\* the row INSERT INTO chat_document writes
documentRow(id, ainagerId, input, t) ==
    [ document_id     |-> id,
      ainager_id      |-> ainagerId,
      file            |-> input.pdfFilePath,
      document_type   |-> "PDF",
      title           |-> IF input.companyName # <<>>
                          THEN <<"Knowledge base for", input.companyName>>
                          ELSE <<"Knowledge base", input.websiteDomain>>,
      description     |-> input.websiteDescription,
      llm_description |-> input.knowledgeBase,
      platform        |-> "WEB",
      upload_date     |-> t ]

\* the update written as a replacement of the row: the columns it does not
\* name fall back to their defaults
updateAinager_ResetsRow(rows, id, instruction, pdfFilePath) ==
    { IF r.ainager_id = id
      THEN [r EXCEPT !.ainager_instruction = instruction, !.pdf_file = pdfFilePath,
                     !.ainager_description = "", !.is_active = 0]
      ELSE r : r \in rows }

\* UPDATE chat_ainager SET ainager_instruction = ?, pdf_file = ? WHERE ainager_id = ?
updateAinager(rows, id, instruction, pdfFilePath) ==
    { IF r.ainager_id = id
      THEN [r EXCEPT !.ainager_instruction = instruction, !.pdf_file = pdfFilePath]
      ELSE r : r \in rows }

\* a transaction's buffered writes, applied to the committed tables at commit
RECURSIVE applyAinagerWrites(_, _)
applyAinagerWrites(rows, writes) ==
    IF writes = <<>> THEN rows
    ELSE LET w == Head(writes) IN
         applyAinagerWrites(
             IF w.kind = "insert_ainager" THEN rows \cup {w.row}
             ELSE IF w.kind = "update_ainager"
                  THEN updateAinager(rows, w.id, w.instruction, w.pdf_file)
             ELSE rows,
             Tail(writes))

RECURSIVE applyDocumentWrites(_, _)
applyDocumentWrites(rows, writes) ==
    IF writes = <<>> THEN rows
    ELSE LET w == Head(writes) IN
         applyDocumentWrites(
             IF w.kind = "insert_document" THEN rows \cup {w.row} ELSE rows,
             Tail(writes))

\* the lookup comparing the name with another column
selectAinagerIdByName_WrongColumn(rows, name) ==
    {r.ainager_id : r \in {x \in rows : x.corpmail = name}}

\* SELECT ainager_id FROM chat_ainager WHERE ainager_name = ?
\* the ids of the committed rows the WHERE clause matches (LIMIT 1 returns
\* any one of them)
selectAinagerIdByName(rows, name) ==
    {r.ainager_id : r \in {x \in rows : x.ainager_name = name}}

ShareablePrefix ==
    <<"h","t","t","p","s",":","/","/","w","w","w",".","a","i","n","a","g","e","r",
      ".","c","o","m","/","w","/">>

\* the link made from the name as a URL slug
shareableLinkOf_Slug(ainagerName) == ShareablePrefix \o slugify(ainagerName)

\* routes.ts:174
shareableLinkOf(ainagerName) == ShareablePrefix \o ainagerName

(***************************************************************************)
(* Inputs                                                                  *)
(***************************************************************************)
\* two request slots: enough for two requests to be in flight together
Procs == {"r1", "r2"}

Email_a      == <<"a","@","x",".","i","o">>
Email_A      == <<"A","@","X",".","i","o">>
Email_b      == <<"b","@","m","y","-","y",".","c","o">>
Email_c      == <<"c","@","x",".","i","o">>
Email_xco    == <<"a","@","x",".","c","o">>
Email_ceo    == <<"c","e","o","@","a","c","m","e","w","i","d","g","e","t","s",".","c","o","m">>
Email_CEO    == <<"C","E","O","@","A","c","m","e","W","i","d","g","e","t","s",".","c","o","m">>
Email_gmail  == <<"u","@","g","m","a","i","l",".","c","o","m">>
Email_Gmail  == <<"u","@","G","m","a","i","l",".","c","o","m">>
Email_twoAt  == <<"a","@","b","@","x",".","i","o">>
Email_noDot  == <<"a","@","x","i","o">>

CompanyEmails == {Email_a}
DeniedEmails == {Email_gmail, Email_Gmail}
MalformedEmails == {Email_twoAt, Email_noDot}
Emails == CompanyEmails \cup DeniedEmails \cup MalformedEmails

\* values randomInt(0, 1_000_000) may return
RandomInts == {7, 123456}
\* the code without the padStart
CodeOf_Unpadded(n) == toDigits(n)

CodeOf(n) == padStart(toDigits(n), OtpDigits, "0")
\* codes a client may submit: the issued ones and one of the wrong length
Codes == {CodeOf(n) : n \in RandomInts} \cup {<<"1","2","3","4","5">>}

\* what the website fetch may return: a page, or the error fetchWebsite throws
Pages ==
    { [title |-> <<"A","c","m","e">>, h1 |-> <<>>,
       description |-> "d1", content |-> "c1"],
      [title |-> <<>>, h1 |-> <<>>,
       description |-> "d2", content |-> "c2"] }
FetchError == [error |-> "Failed to fetch website"]
FetchOutcomes == Pages \cup {FetchError}

\* how obtaining a connection and opening the transaction may end
ConnectOutcomes == {"ok", "getConnection failed", "beginTransaction failed"}

\* the validation verdicts of every input, tabulated once
AllEmails == Emails \cup {Email_A, Email_b, Email_c, Email_xco, Email_ceo, Email_CEO}
zodEmailOf == [e \in AllEmails |-> zodEmail(e)]
isCompanyEmailOf == [e \in AllEmails |-> isCompanyEmail(e)]
zodCodeOf == [c \in Codes |-> zodCode(c)]

(***************************************************************************)
(* State                                                                   *)
(***************************************************************************)
VARIABLES
    now,                     \* Date.now()
    otpByEmail,              \* MemStorage.otpByEmail
    websiteAnalysisByEmail,  \* MemStorage.websiteAnalysisByEmail
    pc,                      \* per request slot: the await the handler is at
    local,                   \* per request slot: the handler's local variables
    resp,                    \* the response the latest step sent, if any
    sent,                    \* (email, code) pairs handed to the mail transport
    verifiedOk,              \* keys for which verifyOtp has returned true
    okSinceIssue,            \* per key: true verifies since the last saveOtp
    files,                   \* artifact files in server/files
    chat_ainager,            \* committed rows of table chat_ainager
    chat_document,           \* committed rows of table chat_document
    nextAinagerId,           \* AUTO_INCREMENT of chat_ainager
    nextDocumentId,          \* AUTO_INCREMENT of chat_document
    checkedOut,              \* connections taken from mysqlPool and not released
    openTx,                  \* request slots whose connection has a transaction open
    provisioned              \* keys whose stored analysis a committed create has used

otpVars == <<otpByEmail, sent, verifiedOk, okSinceIssue>>
dbVars == <<files, chat_ainager, chat_document, nextAinagerId, nextDocumentId,
            checkedOut, openTx>>

vars == <<now, otpByEmail, websiteAnalysisByEmail, pc, local, resp,
          sent, verifiedOk, okSinceIssue,
          files, chat_ainager, chat_document, nextAinagerId, nextDocumentId,
          checkedOut, openTx, provisioned>>

\* every response carries the email of the request it answers
NoResp == [email |-> <<>>, status |-> 0, message |-> "none"]
NoLocal == [op |-> "none"]
Reply(email, status, message) == [email |-> email, status |-> status, message |-> message]
\* the status the error middleware answers with for an error given to next():
\* a validation error is a 400, any other failure a 5xx
errorStatus(err) == IF err = "ZodError" THEN 400 ELSE 500
\* the handler's catch clause: next(err)
Forward(email, err) == [email |-> email, status |-> errorStatus(err), message |-> err]

Keys == {toLowerCase(e) : e \in AllEmails}

Init ==
    /\ now = 0
    /\ otpByEmail = EmptyMap
    /\ websiteAnalysisByEmail = EmptyMap
    /\ pc = [p \in Procs |-> "idle"]
    /\ local = [p \in Procs |-> NoLocal]
    /\ resp = NoResp
    /\ sent = {}
    /\ verifiedOk = {}
    /\ okSinceIssue = [k \in Keys |-> 0]
    /\ files = {}
    /\ chat_ainager = {}
    /\ chat_document = {}
    /\ nextAinagerId = 1
    /\ nextDocumentId = 1
    /\ checkedOut = 0
    /\ openTx = {}
    /\ provisioned = {}

Tick ==
    /\ now < MaxTime
    /\ now' = now + 1
    /\ resp' = NoResp
    /\ UNCHANGED <<otpByEmail, websiteAnalysisByEmail, pc, local,
                   sent, verifiedOk, okSinceIssue, dbVars, provisioned>>

(***************************************************************************)
(* POST /api/auth/request-otp                                              *)
(***************************************************************************)
\* routes.ts:53-65: parse, company-email check, active-OTP check
ReqOtpCheck(p, email) ==
    /\ pc[p] = "idle"
    /\ UNCHANGED <<now, provisioned, websiteAnalysisByEmail, sent, verifiedOk, okSinceIssue, dbVars>>
    /\ IF ~zodEmailOf[email]
       THEN /\ resp' = Forward(email, "ZodError")
            /\ UNCHANGED <<otpByEmail, pc, local>>
       ELSE IF ~isCompanyEmailOf[email]
       THEN /\ resp' = Reply(email, 400, "Please use your company email address.")
            /\ UNCHANGED <<otpByEmail, pc, local>>
       ELSE /\ otpByEmail' = hasActiveOtpStore(otpByEmail, email, now)
            /\ IF hasActiveOtp(otpByEmail, email, now)
               THEN /\ resp' = Reply(email, 429, "OTP already sent. Please wait a few minutes before requesting another.")
                    /\ UNCHANGED <<pc, local>>
               ELSE /\ resp' = NoResp
                    /\ pc' = [pc EXCEPT ![p] = "save"]
                    /\ local' = [local EXCEPT ![p] = [op |-> "request-otp", email |-> email]]

\* routes.ts:67-70: generate the code and store it
ReqOtpSave(p, n) ==
    /\ pc[p] = "save"
    /\ LET code == CodeOf(n)
           expiresAt == now + OtpTtl
       IN  /\ otpByEmail' = saveOtp(otpByEmail, local[p].email, code, expiresAt)
           /\ local' = [local EXCEPT ![p] = [op |-> "request-otp",
                                            email |-> local[p].email, code |-> code]]
    /\ okSinceIssue' = [okSinceIssue EXCEPT ![toLowerCase(local[p].email)] = 0]
    /\ pc' = [pc EXCEPT ![p] = "send"]
    /\ resp' = NoResp
    /\ UNCHANGED <<now, provisioned, websiteAnalysisByEmail, sent, verifiedOk, dbVars>>

\* the handler taking the stored code back when the delivery throws
ReqOtpSend_UndoesStore(p, delivered) ==
    /\ pc[p] = "send"
    /\ IF delivered
       THEN /\ sent' = sent \cup {<<local[p].email, local[p].code>>}
            /\ resp' = Reply(local[p].email, 200, "true")
            /\ otpByEmail' = otpByEmail
       ELSE /\ sent' = sent
            /\ resp' = Forward(local[p].email, "sendOtp failed")
            /\ otpByEmail' = MapDelete(otpByEmail, toLowerCase(local[p].email))
    /\ pc' = [pc EXCEPT ![p] = "idle"]
    /\ local' = [local EXCEPT ![p] = NoLocal]
    /\ UNCHANGED <<now, provisioned, websiteAnalysisByEmail,
                   verifiedOk, okSinceIssue, dbVars>>

\* routes.ts:75-77 and EmailService.sendOtp: deliver, or throw
ReqOtpSend(p, delivered) ==
    /\ pc[p] = "send"
    /\ IF delivered
       THEN /\ sent' = sent \cup {<<local[p].email, local[p].code>>}
            /\ resp' = Reply(local[p].email, 200, "true")
       ELSE /\ sent' = sent
            /\ resp' = Forward(local[p].email, "sendOtp failed")
    /\ pc' = [pc EXCEPT ![p] = "idle"]
    /\ local' = [local EXCEPT ![p] = NoLocal]
    /\ UNCHANGED <<now, provisioned, otpByEmail, websiteAnalysisByEmail,
                   verifiedOk, okSinceIssue, dbVars>>

(***************************************************************************)
(* POST /api/auth/verify-otp                                               *)
(***************************************************************************)
Min(a, b) == IF a < b THEN a ELSE b

\* the submitted code is the stored, unexpired code of the email
ValidCode(email, code) ==
    LET k == toLowerCase(email) IN
    /\ MapHas(otpByEmail, k)
    /\ now <= otpByEmail[k].expiresAt
    /\ otpByEmail[k].code = code

\* routes.ts:86-98: parse, verifyOtp, reject or start the website analysis
\* the handler with a message of its own for an expired code
VerifyOtp_RevealsExpiry(p, email, code) ==
    /\ pc[p] = "idle"
    /\ UNCHANGED <<now, provisioned, websiteAnalysisByEmail, sent, dbVars>>
    /\ IF ~(zodEmailOf[email] /\ zodCodeOf[code])
       THEN /\ resp' = Forward(email, "ZodError")
            /\ UNCHANGED <<otpByEmail, pc, local, verifiedOk, okSinceIssue>>
       ELSE LET valid == verifyOtpResult(otpByEmail, email, code, now)
                k == toLowerCase(email)
            IN  /\ otpByEmail' = verifyOtpStore(otpByEmail, email, code, now)
                /\ IF ~valid
                   THEN /\ resp' = Reply(email, 400,
                                         IF MapHas(otpByEmail, k) /\ now > otpByEmail[k].expiresAt
                                         THEN "Code expired" ELSE "Invalid or expired code")
                        /\ UNCHANGED <<pc, local, verifiedOk, okSinceIssue>>
                   ELSE /\ verifiedOk' = IF ValidCode(email, code)
                                         THEN verifiedOk \cup {k} ELSE verifiedOk
                        /\ okSinceIssue' = [okSinceIssue EXCEPT ![k] = Min(@ + 1, 2)]
                        /\ resp' = NoResp
                        /\ pc' = [pc EXCEPT ![p] = "fetch"]
                        /\ local' = [local EXCEPT ![p] = [op |-> "verify-otp", email |-> email]]

VerifyOtp(p, email, code) ==
    /\ pc[p] = "idle"
    /\ UNCHANGED <<now, provisioned, websiteAnalysisByEmail, sent, dbVars>>
    /\ IF ~(zodEmailOf[email] /\ zodCodeOf[code])
       THEN /\ resp' = Forward(email, "ZodError")
            /\ UNCHANGED <<otpByEmail, pc, local, verifiedOk, okSinceIssue>>
       ELSE LET valid == verifyOtpResult(otpByEmail, email, code, now)
                k == toLowerCase(email)
            IN  /\ otpByEmail' = verifyOtpStore(otpByEmail, email, code, now)
                /\ IF ~valid
                   THEN /\ resp' = Reply(email, 400, "Invalid or expired code")
                        /\ UNCHANGED <<pc, local, verifiedOk, okSinceIssue>>
                   ELSE /\ verifiedOk' = IF ValidCode(email, code)
                                         THEN verifiedOk \cup {k} ELSE verifiedOk
                        /\ okSinceIssue' = [okSinceIssue EXCEPT ![k] = Min(@ + 1, 2)]
                        /\ resp' = NoResp
                        /\ pc' = [pc EXCEPT ![p] = "fetch"]
                        /\ local' = [local EXCEPT ![p] = [op |-> "verify-otp", email |-> email]]

AnalysisFailed == "Could not analyze company website. Please ensure the email domain has a valid website."

\* the fetch tried a second time when the first throws
VerifyFetch_RetriesOnce(p, outcome) ==
    /\ pc[p] = "fetch"
    /\ LET email == local[p].email
           domain == crawlerDomainOf(email)
       IN  IF domain = <<>>
           THEN /\ resp' = Reply(email, 400, AnalysisFailed)
                /\ pc' = [pc EXCEPT ![p] = "idle"]
                /\ local' = [local EXCEPT ![p] = NoLocal]
                /\ UNCHANGED <<websiteAnalysisByEmail, provisioned>>
           ELSE IF outcome = FetchError /\ "retried" \notin DOMAIN local[p]
           THEN /\ resp' = NoResp
                /\ pc' = pc
                /\ local' = [local EXCEPT ![p] =
                       [op |-> "verify-otp", email |-> email, retried |-> TRUE]]
                /\ UNCHANGED <<websiteAnalysisByEmail, provisioned>>
           ELSE /\ IF outcome = FetchError
                   THEN /\ resp' = Reply(email, 400, AnalysisFailed)
                        /\ UNCHANGED <<websiteAnalysisByEmail, provisioned>>
                   ELSE LET a == analysisOf(domain, outcome) IN
                        /\ websiteAnalysisByEmail' =
                               saveWebsiteAnalysis(websiteAnalysisByEmail, email, a)
                        /\ provisioned' = provisioned \ {toLowerCase(email)}
                        /\ resp' = [email |-> email, status |-> 200, message |-> "ok",
                                    websiteInfo |-> [domain |-> a.domain, title |-> a.title,
                                                     description |-> a.description]]
                /\ pc' = [pc EXCEPT ![p] = "idle"]
                /\ local' = [local EXCEPT ![p] = NoLocal]
    /\ UNCHANGED <<now, otpByEmail, sent, verifiedOk, okSinceIssue, dbVars>>

\* routes.ts:98-125 and analyzeWebsiteFromEmail: the fetch returns or throws
VerifyFetch(p, outcome) ==
    /\ pc[p] = "fetch"
    /\ LET email == local[p].email
           domain == crawlerDomainOf(email)
       IN  IF domain = <<>>
           THEN /\ resp' = Reply(email, 400, AnalysisFailed)
                /\ UNCHANGED <<websiteAnalysisByEmail, provisioned>>
           ELSE /\ IF outcome = FetchError
                   THEN /\ resp' = Reply(email, 400, AnalysisFailed)
                        /\ UNCHANGED <<websiteAnalysisByEmail, provisioned>>
                   ELSE LET a == analysisOf(domain, outcome) IN
                        /\ websiteAnalysisByEmail' =
                               saveWebsiteAnalysis(websiteAnalysisByEmail, email, a)
                        /\ provisioned' = provisioned \ {toLowerCase(email)}
                        /\ resp' = [email |-> email, status |-> 200, message |-> "ok",
                                    websiteInfo |-> [domain |-> a.domain, title |-> a.title,
                                                     description |-> a.description]]
    /\ pc' = [pc EXCEPT ![p] = "idle"]
    /\ local' = [local EXCEPT ![p] = NoLocal]
    /\ UNCHANGED <<now, otpByEmail, sent, verifiedOk, okSinceIssue, dbVars>>

(***************************************************************************)
(* POST /api/ainager/create                                                *)
(***************************************************************************)
InFlightCreates == Cardinality({q \in Procs : local[q].op = "create"})

AnalysisNotFound == "Website analysis not found. Please restart the process."

\* the handler taking the analysis out of the store when it reads it
CreateStart_TakesAnalysis(p, email) ==
    /\ pc[p] = "idle"
    /\ nextAinagerId + InFlightCreates <= MaxRows
    /\ nextDocumentId + InFlightCreates <= MaxRows
    /\ UNCHANGED <<now, provisioned, otpVars, dbVars>>
    /\ IF ~zodEmailOf[email]
       THEN /\ resp' = Forward(email, "ZodError")
            /\ UNCHANGED <<pc, local, websiteAnalysisByEmail>>
       ELSE LET websiteAnalysis == getWebsiteAnalysis(websiteAnalysisByEmail, email) IN
            IF websiteAnalysis = Undefined
            THEN /\ resp' = Reply(email, 400, AnalysisNotFound)
                 /\ UNCHANGED <<pc, local, websiteAnalysisByEmail>>
            ELSE /\ resp' = NoResp
                 /\ websiteAnalysisByEmail' =
                        MapDelete(websiteAnalysisByEmail, toLowerCase(email))
                 /\ pc' = [pc EXCEPT ![p] = "pdf"]
                 /\ local' = [local EXCEPT ![p] =
                        [op |-> "create", email |-> email, analysis |-> websiteAnalysis]]

\* routes.ts:134-146: parse, look the stored analysis up
CreateStart(p, email) ==
    /\ pc[p] = "idle"
    /\ nextAinagerId + InFlightCreates <= MaxRows
    /\ nextDocumentId + InFlightCreates <= MaxRows
    /\ UNCHANGED <<now, provisioned, websiteAnalysisByEmail, otpVars, dbVars>>
    /\ IF ~zodEmailOf[email]
       THEN /\ resp' = Forward(email, "ZodError")
            /\ UNCHANGED <<pc, local>>
       ELSE LET websiteAnalysis == getWebsiteAnalysis(websiteAnalysisByEmail, email) IN
            IF websiteAnalysis = Undefined
            THEN /\ resp' = Reply(email, 400, AnalysisNotFound)
                 /\ UNCHANGED <<pc, local>>
            ELSE /\ resp' = NoResp
                 /\ pc' = [pc EXCEPT ![p] = "pdf"]
                 /\ local' = [local EXCEPT ![p] =
                        [op |-> "create", email |-> email, analysis |-> websiteAnalysis]]

\* routes.ts:154-160 and generateWebsitePdf: the file is written, or it throws
CreatePdf(p, ok) ==
    /\ pc[p] = "pdf"
    /\ UNCHANGED <<now, provisioned, websiteAnalysisByEmail, otpVars, chat_ainager, chat_document,
                   nextAinagerId, nextDocumentId, checkedOut, openTx>>
    /\ IF ok
       THEN LET a == local[p].analysis
                pdfFilePath == pdfPathOf(a.domain, now)
            IN  /\ files' = files \cup {pdfFilePath}
                /\ resp' = NoResp
                /\ pc' = [pc EXCEPT ![p] = "connect"]
                /\ local' = [local EXCEPT ![p] =
                       [op |-> "create", analysis |-> a,
                        input |-> [ email              |-> local[p].email,
                                    companyName        |-> a.title,
                                    instruction        |-> a.instruction,
                                    knowledgeBase      |-> a.knowledgeBase,
                                    websiteDomain      |-> a.domain,
                                    websiteDescription |-> a.description,
                                    pdfFilePath        |-> pdfFilePath ],
                        writes |-> <<>>]]
       ELSE /\ files' = files
            /\ resp' = Forward(local[p].email, "generateWebsitePdf failed")
            /\ pc' = [pc EXCEPT ![p] = "idle"]
            /\ local' = [local EXCEPT ![p] = NoLocal]

\* the release written in the try block only: a failing call keeps its
\* connection
UpsertAbort_NoRelease(p, err) ==
    /\ openTx' = openTx \ {p}
    /\ UNCHANGED <<chat_ainager, chat_document, checkedOut>>
    /\ resp' = Forward(local[p].input.email, err)
    /\ pc' = [pc EXCEPT ![p] = "idle"]
    /\ local' = [local EXCEPT ![p] = NoLocal]

\* the catch clause committing what the transaction wrote so far
UpsertAbort_PartialCommit(p, err) ==
    /\ openTx' = openTx \ {p}
    /\ chat_ainager' = applyAinagerWrites(chat_ainager, local[p].writes)
    /\ chat_document' = applyDocumentWrites(chat_document, local[p].writes)
    /\ checkedOut' = checkedOut - 1
    /\ resp' = Forward(local[p].input.email, err)
    /\ pc' = [pc EXCEPT ![p] = "idle"]
    /\ local' = [local EXCEPT ![p] = NoLocal]

\* the catch and finally clauses of createAinagerAndDocumentMySql:
\* rollback (buffered writes are dropped), release, rethrow to next(err).
\* A rollback that throws is swallowed: its session is lost, and the server
\* discards the transaction of a lost session.
UpsertAbort(p, err) ==
    /\ \E rolledBack \in BOOLEAN : openTx' = openTx \ {p}
    /\ UNCHANGED <<chat_ainager, chat_document>>
    /\ checkedOut' = checkedOut - 1
    /\ resp' = Forward(local[p].input.email, err)
    /\ pc' = [pc EXCEPT ![p] = "idle"]
    /\ local' = [local EXCEPT ![p] = NoLocal]

\* ainagerMysql.ts:42-46: getConnection, beginTransaction
UpsertConnect(p, outcome) ==
    /\ pc[p] = "connect"
    /\ UNCHANGED <<now, provisioned, websiteAnalysisByEmail, otpVars, files, chat_ainager,
                   chat_document, nextAinagerId, nextDocumentId>>
    /\ IF outcome = "getConnection failed"
       THEN /\ UNCHANGED <<checkedOut, openTx>>
            /\ resp' = Forward(local[p].input.email, outcome)
            /\ pc' = [pc EXCEPT ![p] = "idle"]
            /\ local' = [local EXCEPT ![p] = NoLocal]
       ELSE /\ checkedOut < ConnectionLimit
            /\ IF outcome = "beginTransaction failed"
               THEN /\ UNCHANGED <<checkedOut, openTx>>
                    /\ resp' = Forward(local[p].input.email, outcome)
                    /\ pc' = [pc EXCEPT ![p] = "idle"]
                    /\ local' = [local EXCEPT ![p] = NoLocal]
               ELSE /\ checkedOut' = checkedOut + 1
                    /\ openTx' = openTx \cup {p}
                    /\ resp' = NoResp
                    /\ pc' = [pc EXCEPT ![p] = "select"]
                    /\ local' = [local EXCEPT ![p] =
                           [op |-> "create", analysis |-> local[p].analysis,
                            input |-> local[p].input, writes |-> <<>>,
                            ainagerName |-> buildAinagerNameFromEmail(local[p].input.email)]]

\* ainagerMysql.ts:49-56: SELECT ainager_id ... WHERE ainager_name = ? LIMIT 1
\* existingId = 0 stands for an empty result
UpsertSelect(p, existingId, ok) ==
    /\ pc[p] = "select"
    /\ UNCHANGED <<now, provisioned, websiteAnalysisByEmail, otpVars, files,
                   nextAinagerId, nextDocumentId>>
    /\ IF ok
       THEN LET existingRows == selectAinagerIdByName(chat_ainager, local[p].ainagerName) IN
            /\ IF existingRows = {} THEN existingId = 0
               ELSE existingId \in existingRows
            /\ UNCHANGED <<checkedOut, openTx, chat_ainager, chat_document>>
            /\ resp' = NoResp
            /\ pc' = [pc EXCEPT ![p] = "ainager"]
            /\ local' = [local EXCEPT ![p] =
                   [op |-> "create", analysis |-> local[p].analysis,
                    input |-> local[p].input, writes |-> <<>>,
                    ainagerName |-> local[p].ainagerName, existingId |-> existingId]]
       ELSE /\ existingId = 0
            /\ UpsertAbort(p, "SELECT failed")

\* another open transaction holds the row lock of an uncommitted UPDATE
RowLocked(p, id) ==
    \E q \in Procs \ {p} :
        /\ local[q].op = "create"
        /\ pc[q] \in {"document", "commit"}
        /\ \E i \in 1..Len(local[q].writes) :
               /\ local[q].writes[i].kind = "update_ainager"
               /\ local[q].writes[i].id = id

\* the write deciding at the time of the write: it looks the name up again
\* and updates a row committed since the SELECT
UpsertAinager_ChecksAgain(p, ok) ==
    /\ pc[p] = "ainager"
    /\ UNCHANGED <<now, provisioned, websiteAnalysisByEmail, otpVars, files, nextDocumentId>>
    /\ IF ok
       THEN LET l == local[p]
                existingRows == selectAinagerIdByName(chat_ainager, l.ainagerName)
                found == existingRows # {}
            IN  \E ainagerId \in (IF found THEN existingRows ELSE {nextAinagerId}) :
                LET write == IF found
                             THEN [kind |-> "update_ainager", id |-> ainagerId,
                                   instruction |-> l.input.instruction,
                                   pdf_file |-> l.input.pdfFilePath]
                             ELSE [kind |-> "insert_ainager",
                                   row |-> ainagerRow(ainagerId, l.ainagerName, l.input, now)]
                IN  /\ found => ~RowLocked(p, ainagerId)
                    /\ nextAinagerId' = IF found THEN nextAinagerId ELSE nextAinagerId + 1
                    /\ UNCHANGED <<checkedOut, openTx, chat_ainager, chat_document>>
                    /\ resp' = NoResp
                    /\ pc' = [pc EXCEPT ![p] = "document"]
                    /\ local' = [local EXCEPT ![p] =
                           [op |-> "create", analysis |-> l.analysis, input |-> l.input,
                            ainagerName |-> l.ainagerName, ainagerId |-> ainagerId,
                            writes |-> <<write>>]]
       ELSE /\ nextAinagerId' = nextAinagerId
            /\ UpsertAbort(p, "chat_ainager write failed")

\* ainagerMysql.ts:55-78: UPDATE the row found, or INSERT a new one
UpsertAinager(p, ok) ==
    /\ pc[p] = "ainager"
    /\ UNCHANGED <<now, provisioned, websiteAnalysisByEmail, otpVars, files, nextDocumentId>>
    /\ IF ok
       THEN LET l == local[p]
                found == l.existingId # 0
                ainagerId == IF found THEN l.existingId ELSE nextAinagerId
                write == IF found
                         THEN [kind |-> "update_ainager", id |-> ainagerId,
                               instruction |-> l.input.instruction,
                               pdf_file |-> l.input.pdfFilePath]
                         ELSE [kind |-> "insert_ainager",
                               row |-> ainagerRow(ainagerId, l.ainagerName, l.input, now)]
            IN  /\ found => ~RowLocked(p, ainagerId)
                /\ nextAinagerId' = IF found THEN nextAinagerId ELSE nextAinagerId + 1
                /\ UNCHANGED <<checkedOut, openTx, chat_ainager, chat_document>>
                /\ resp' = NoResp
                /\ pc' = [pc EXCEPT ![p] = "document"]
                /\ local' = [local EXCEPT ![p] =
                       [op |-> "create", analysis |-> l.analysis, input |-> l.input,
                        ainagerName |-> l.ainagerName, ainagerId |-> ainagerId,
                        writes |-> <<write>>]]
       ELSE /\ nextAinagerId' = nextAinagerId
            /\ UpsertAbort(p, "chat_ainager write failed")

\* ainagerMysql.ts:80-93: INSERT INTO chat_document
UpsertDocument(p, ok) ==
    /\ pc[p] = "document"
    /\ UNCHANGED <<now, provisioned, websiteAnalysisByEmail, otpVars, files, nextAinagerId>>
    /\ IF ok
       THEN LET l == local[p]
                write == [kind |-> "insert_document",
                          row |-> documentRow(nextDocumentId, l.ainagerId, l.input, now)]
            IN  /\ nextDocumentId' = nextDocumentId + 1
                /\ UNCHANGED <<checkedOut, openTx, chat_ainager, chat_document>>
                /\ resp' = NoResp
                /\ pc' = [pc EXCEPT ![p] = "commit"]
                /\ local' = [local EXCEPT ![p] =
                       [op |-> "create", analysis |-> l.analysis, input |-> l.input,
                        ainagerName |-> l.ainagerName, ainagerId |-> l.ainagerId,
                        documentId |-> nextDocumentId,
                        writes |-> Append(l.writes, write)]]
       ELSE /\ nextDocumentId' = nextDocumentId
            /\ UpsertAbort(p, "chat_document insert failed")

\* ainagerMysql.ts:95-105 and routes.ts:173-191: commit, release, respond
UpsertCommit(p, ok) ==
    /\ pc[p] = "commit"
    /\ UNCHANGED <<now, websiteAnalysisByEmail, otpVars, files,
                   nextAinagerId, nextDocumentId>>
    /\ IF ok
       THEN LET l == local[p] IN
            /\ chat_ainager' = applyAinagerWrites(chat_ainager, l.writes)
            /\ chat_document' = applyDocumentWrites(chat_document, l.writes)
            /\ checkedOut' = checkedOut - 1
            /\ openTx' = openTx \ {p}
            /\ provisioned' = provisioned \cup {toLowerCase(l.input.email)}
            /\ resp' = [ status        |-> 200,
                         message       |-> "ok",
                         ainagerName   |-> l.ainagerName,
                         shareableLink |-> shareableLinkOf(l.ainagerName),
                         email         |-> l.input.email,
                         ainagerId     |-> l.ainagerId,
                         documentId    |-> l.documentId,
                         websiteInfo   |-> [ domain |-> l.analysis.domain,
                                             title |-> l.analysis.title,
                                             description |-> l.analysis.description ] ]
            /\ pc' = [pc EXCEPT ![p] = "idle"]
            /\ local' = [local EXCEPT ![p] = NoLocal]
       ELSE /\ UNCHANGED provisioned
            /\ UpsertAbort(p, "commit failed")

(***************************************************************************)
(* Specifications.  The OTP store and the tenant tables are independent,   *)
(* so each specification fixes the requests the clients send.              *)
(*   Spec          two concurrent clients of the two OTP endpoints         *)
(*   SpecPipeline  one request at a time over all three endpoints: one     *)
(*                 company email goes through the flow, a second one is    *)
(*                 used by a client that never requested a code; the       *)
(*                 connection and the commit may fail, the statements in   *)
(*                 between succeed                                         *)
(*   SpecRerun     one request at a time, two emails of one domain go      *)
(*                 through the flow; the clock stands still                *)
(*   SpecStore     one request at a time: two emails request codes, and    *)
(*                 they and another casing of the first verify and create, *)
(*                 with either page; the clock stands still, the mail is   *)
(*                 delivered and every statement of the upsert succeeds    *)
(*   SpecScenario  one request at a time: ceo@acmewidgets.com, as typed    *)
(*                 and in capitals, goes through the flow; the clock       *)
(*                 stands still                                            *)
(*   SpecUpsert    two concurrent creates for one email and another casing *)
(*                 of it; the OTP endpoints are called by one client for   *)
(*                 that email, with the code sent; the clock stands still  *)
(***************************************************************************)
Next ==
    \/ Tick
    \/ \E p \in Procs, e \in Emails : ReqOtpCheck(p, e)
    \/ \E p \in Procs, n \in RandomInts : ReqOtpSave(p, n)
    \/ \E p \in Procs, d \in BOOLEAN : ReqOtpSend(p, d)
    \/ \E p \in Procs, e \in Emails, c \in Codes : VerifyOtp(p, e, c)
    \/ \E p \in Procs, o \in FetchOutcomes : VerifyFetch(p, o)

Spec == Init /\ [][Next]_vars

PipelineProcs == {"r1"}
PipelineOtpEmails == {Email_a, Email_gmail}
PipelineEmails == {Email_a, Email_b}
PipelineInts == {7}
PipelineOutcomes == {pg \in Pages : pg.title = <<>>} \cup {FetchError}

NextPipeline ==
    \/ Tick
    \/ \E p \in PipelineProcs, e \in PipelineOtpEmails : ReqOtpCheck(p, e)
    \/ \E p \in PipelineProcs, n \in PipelineInts : ReqOtpSave(p, n)
    \/ \E p \in PipelineProcs, d \in BOOLEAN : ReqOtpSend(p, d)
    \/ \E p \in PipelineProcs, e \in PipelineEmails, c \in Codes : VerifyOtp(p, e, c)
    \/ \E p \in PipelineProcs, o \in PipelineOutcomes : VerifyFetch(p, o)
    \/ \E p \in PipelineProcs, e \in PipelineEmails : CreateStart(p, e)
    \/ \E p \in PipelineProcs, ok \in BOOLEAN : CreatePdf(p, ok)
    \/ \E p \in PipelineProcs, o \in ConnectOutcomes : UpsertConnect(p, o)
    \/ \E p \in PipelineProcs, id \in 0..MaxRows : UpsertSelect(p, id, TRUE)
    \/ \E p \in PipelineProcs : UpsertAinager(p, TRUE)
    \/ \E p \in PipelineProcs : UpsertDocument(p, TRUE)
    \/ \E p \in PipelineProcs, ok \in BOOLEAN : UpsertCommit(p, ok)

SpecPipeline == Init /\ [][NextPipeline]_vars

RerunEmails == {Email_a, Email_c}

NextRerun ==
    \/ \E p \in PipelineProcs, e \in RerunEmails : ReqOtpCheck(p, e)
    \/ \E p \in PipelineProcs, n \in PipelineInts : ReqOtpSave(p, n)
    \/ \E p \in PipelineProcs, d \in BOOLEAN : ReqOtpSend(p, d)
    \/ \E p \in PipelineProcs, e \in RerunEmails, c \in Codes : VerifyOtp(p, e, c)
    \/ \E p \in PipelineProcs, o \in PipelineOutcomes : VerifyFetch(p, o)
    \/ \E p \in PipelineProcs, e \in RerunEmails : CreateStart(p, e)
    \/ \E p \in PipelineProcs, ok \in BOOLEAN : CreatePdf(p, ok)
    \/ \E p \in PipelineProcs, o \in ConnectOutcomes : UpsertConnect(p, o)
    \/ \E p \in PipelineProcs, id \in 0..MaxRows, ok \in BOOLEAN : UpsertSelect(p, id, ok)
    \/ \E p \in PipelineProcs, ok \in BOOLEAN : UpsertAinager(p, ok)
    \/ \E p \in PipelineProcs, ok \in BOOLEAN : UpsertDocument(p, ok)
    \/ \E p \in PipelineProcs, ok \in BOOLEAN : UpsertCommit(p, ok)

SpecRerun == Init /\ [][NextRerun]_vars

\* request-otp alone, the random integer taken from both ends of
\* randomInt(0, 1_000_000) and from either side of the six-digit boundary
IssueInts == {0, 7, 99999, 100000, 999999}
IssueEmails == {Email_a}

NextIssue ==
    \/ Tick
    \/ \E p \in Procs, e \in IssueEmails : ReqOtpCheck(p, e)
    \/ \E p \in Procs, n \in IssueInts : ReqOtpSave(p, n)
    \/ \E p \in Procs, d \in BOOLEAN : ReqOtpSend(p, d)

SpecIssue == Init /\ [][NextIssue]_vars

\* full runs for three companies, two of them with domains that differ only
\* after the first label (x.io, x.co), every step succeeding
TenantEmails == {Email_a, Email_xco, Email_b}
TenantPages == {pg \in Pages : pg.title = <<>>}
TenantCodes == {CodeOf(n) : n \in PipelineInts}

NextTenants ==
    \/ \E p \in PipelineProcs, e \in TenantEmails : ReqOtpCheck(p, e)
    \/ \E p \in PipelineProcs, n \in PipelineInts : ReqOtpSave(p, n)
    \/ \E p \in PipelineProcs : ReqOtpSend(p, TRUE)
    \/ \E p \in PipelineProcs, e \in TenantEmails, c \in TenantCodes : VerifyOtp(p, e, c)
    \/ \E p \in PipelineProcs, o \in TenantPages : VerifyFetch(p, o)
    \/ \E p \in PipelineProcs, e \in TenantEmails : CreateStart(p, e)
    \/ \E p \in PipelineProcs : CreatePdf(p, TRUE)
    \/ \E p \in PipelineProcs : UpsertConnect(p, "ok")
    \/ \E p \in PipelineProcs, id \in 0..MaxRows : UpsertSelect(p, id, TRUE)
    \/ \E p \in PipelineProcs : UpsertAinager(p, TRUE)
    \/ \E p \in PipelineProcs : UpsertDocument(p, TRUE)
    \/ \E p \in PipelineProcs : UpsertCommit(p, TRUE)

SpecTenants == Init /\ [][NextTenants]_vars

\* full runs for one mailbox typed in two ways, every step succeeding
CaseEmails == {Email_a, Email_A}

NextCase ==
    \/ \E p \in PipelineProcs, e \in CaseEmails : ReqOtpCheck(p, e)
    \/ \E p \in PipelineProcs, n \in RandomInts : ReqOtpSave(p, n)
    \/ \E p \in PipelineProcs : ReqOtpSend(p, TRUE)
    \/ \E p \in PipelineProcs, e \in CaseEmails, c \in Codes : VerifyOtp(p, e, c)
    \/ \E p \in PipelineProcs, o \in TenantPages : VerifyFetch(p, o)
    \/ \E p \in PipelineProcs, e \in CaseEmails : CreateStart(p, e)
    \/ \E p \in PipelineProcs : CreatePdf(p, TRUE)
    \/ \E p \in PipelineProcs : UpsertConnect(p, "ok")
    \/ \E p \in PipelineProcs, id \in 0..MaxRows : UpsertSelect(p, id, TRUE)
    \/ \E p \in PipelineProcs : UpsertAinager(p, TRUE)
    \/ \E p \in PipelineProcs : UpsertDocument(p, TRUE)
    \/ \E p \in PipelineProcs : UpsertCommit(p, TRUE)

SpecCase == Init /\ [][NextCase]_vars

StoreEmails == {Email_a, Email_A, Email_c}

NextStore ==
    \/ \E p \in PipelineProcs, e \in RerunEmails : ReqOtpCheck(p, e)
    \/ \E p \in PipelineProcs, n \in PipelineInts : ReqOtpSave(p, n)
    \/ \E p \in PipelineProcs : ReqOtpSend(p, TRUE)
    \/ \E p \in PipelineProcs, e \in StoreEmails, c \in Codes : VerifyOtp(p, e, c)
    \/ \E p \in PipelineProcs, o \in FetchOutcomes : VerifyFetch(p, o)
    \/ \E p \in PipelineProcs, e \in StoreEmails : CreateStart(p, e)
    \/ \E p \in PipelineProcs : CreatePdf(p, TRUE)
    \/ \E p \in PipelineProcs : UpsertConnect(p, "ok")
    \/ \E p \in PipelineProcs, id \in 0..MaxRows : UpsertSelect(p, id, TRUE)
    \/ \E p \in PipelineProcs : UpsertAinager(p, TRUE)
    \/ \E p \in PipelineProcs : UpsertDocument(p, TRUE)
    \/ \E p \in PipelineProcs : UpsertCommit(p, TRUE)

SpecStore == Init /\ [][NextStore]_vars

UpsertOtpProcs == {"r1"}
UpsertOtpEmails == {Email_a}
UpsertEmails == {Email_a, Email_A}
UpsertCodes == {CodeOf(n) : n \in PipelineInts}
UpsertOutcomes == Pages

NextUpsert ==
    \/ \E p \in UpsertOtpProcs, e \in UpsertOtpEmails : ReqOtpCheck(p, e)
    \/ \E p \in UpsertOtpProcs, n \in PipelineInts : ReqOtpSave(p, n)
    \/ \E p \in UpsertOtpProcs : ReqOtpSend(p, TRUE)
    \/ \E p \in UpsertOtpProcs, e \in UpsertOtpEmails, c \in UpsertCodes : VerifyOtp(p, e, c)
    \/ \E p \in UpsertOtpProcs, o \in UpsertOutcomes : VerifyFetch(p, o)
    \/ \E p \in Procs, e \in UpsertEmails : CreateStart(p, e)
    \/ \E p \in Procs, ok \in BOOLEAN : CreatePdf(p, ok)
    \/ \E p \in Procs, o \in ConnectOutcomes : UpsertConnect(p, o)
    \/ \E p \in Procs, id \in 0..MaxRows, ok \in BOOLEAN : UpsertSelect(p, id, ok)
    \/ \E p \in Procs, ok \in BOOLEAN : UpsertAinager(p, ok)
    \/ \E p \in Procs, ok \in BOOLEAN : UpsertDocument(p, ok)
    \/ \E p \in Procs, ok \in BOOLEAN : UpsertCommit(p, ok)

SpecUpsert == Init /\ [][NextUpsert]_vars

ScenarioEmails == {Email_ceo, Email_CEO}

NextScenario ==
    \/ \E p \in PipelineProcs, e \in ScenarioEmails : ReqOtpCheck(p, e)
    \/ \E p \in PipelineProcs, n \in PipelineInts : ReqOtpSave(p, n)
    \/ \E p \in PipelineProcs, d \in BOOLEAN : ReqOtpSend(p, d)
    \/ \E p \in PipelineProcs, e \in ScenarioEmails, c \in Codes : VerifyOtp(p, e, c)
    \/ \E p \in PipelineProcs, o \in FetchOutcomes : VerifyFetch(p, o)
    \/ \E p \in PipelineProcs, e \in ScenarioEmails : CreateStart(p, e)
    \/ \E p \in PipelineProcs, ok \in BOOLEAN : CreatePdf(p, ok)
    \/ \E p \in PipelineProcs, o \in ConnectOutcomes : UpsertConnect(p, o)
    \/ \E p \in PipelineProcs, id \in 0..MaxRows, ok \in BOOLEAN : UpsertSelect(p, id, ok)
    \/ \E p \in PipelineProcs, ok \in BOOLEAN : UpsertAinager(p, ok)
    \/ \E p \in PipelineProcs, ok \in BOOLEAN : UpsertDocument(p, ok)
    \/ \E p \in PipelineProcs, ok \in BOOLEAN : UpsertCommit(p, ok)

SpecScenario == Init /\ [][NextScenario]_vars

\* the tenant name as a function of the email: domains put together from
\* at most MaxTokens pieces, kept when the address passes the request-otp
\* validation
NameTokens ==
    { <<"w","w","w",".">>, <<"x">>, <<"a","b">>, <<"-">>, <<"_">>, <<".">>, <<"i","o">> }
RECURSIVE DomainsOf(_)
DomainsOf(n) ==
    IF n = 0 THEN {<<>>}
    ELSE LET shorter == DomainsOf(n - 1) IN
         shorter \cup {d \o t : d \in shorter, t \in NameTokens}
\* host names: every label starts with a letter or digit, the last one is
\* made of letters
HostName(d) ==
    LET labels == split(d, ".") IN
    /\ \A i \in 1..Len(labels) :
          labels[i] # <<>> /\ isAlnumLower(labels[i][1])
    /\ \A j \in 1..Len(labels[Len(labels)]) :
          \E k \in 1..Len(LowerChars) : LowerChars[k] = labels[Len(labels)][j]
\* the two domains the description of the display name gives as examples
Domain_myShop == <<"m","y","-","s","h","o","p",".","c","o","m">>
Domain_wwwAcme == <<"w","w","w",".","a","c","m","e",".","i","o">>
NameEmails(n) ==
    {e \in {<<"u","@">> \o d :
               d \in {h \in DomainsOf(n) : HostName(h)}
                      \cup {Domain_myShop, Domain_wwwAcme}} :
        zodEmail(e) /\ isCompanyEmail(e)}

InitNames ==
    /\ now = 0
    /\ otpByEmail = EmptyMap
    /\ websiteAnalysisByEmail = EmptyMap
    /\ pc = [p \in Procs |-> "idle"]
    /\ \E e \in NameEmails(MaxTokens) :
          local = [p \in Procs |-> IF p \in PipelineProcs
                                    THEN [op |-> "name", email |-> e] ELSE NoLocal]
    /\ resp = NoResp
    /\ sent = {}
    /\ verifiedOk = {}
    /\ okSinceIssue = [k \in Keys |-> 0]
    /\ files = {}
    /\ chat_ainager = {}
    /\ chat_document = {}
    /\ nextAinagerId = 1
    /\ nextDocumentId = 1
    /\ checkedOut = 0
    /\ openTx = {}
    /\ provisioned = {}

\* the two derivations of a name from the email, side by side:
\* buildAinagerNameFromEmail, and deriveTitleFromDomain of the crawler's domain
TenantName(p) ==
    /\ local[p].op = "name"
    /\ LET e == local[p].email IN
       resp' = [ email       |-> e,
                 status      |-> 0,
                 message     |-> "name",
                 ainagerName |-> buildAinagerNameFromEmail(e),
                 displayName |-> deriveTitleFromDomain(crawlerDomainOf(e)) ]
    /\ local' = [local EXCEPT ![p] = NoLocal]
    /\ UNCHANGED <<now, provisioned, websiteAnalysisByEmail, pc, otpVars, dbVars>>

NextNames == \E p \in PipelineProcs : TenantName(p)

SpecNames == InitNames /\ [][NextNames]_vars

\* a state in which nothing has happened yet and the first request slot is
\* about to apply a function to the input held in l
InitWith(l) ==
    /\ now = 0
    /\ otpByEmail = EmptyMap
    /\ websiteAnalysisByEmail = EmptyMap
    /\ pc = [p \in Procs |-> "idle"]
    /\ local = [p \in Procs |-> IF p \in PipelineProcs THEN l ELSE NoLocal]
    /\ resp = NoResp
    /\ sent = {}
    /\ verifiedOk = {}
    /\ okSinceIssue = [k \in Keys |-> 0]
    /\ files = {}
    /\ chat_ainager = {}
    /\ chat_document = {}
    /\ nextAinagerId = 1
    /\ nextDocumentId = 1
    /\ checkedOut = 0
    /\ openTx = {}
    /\ provisioned = {}

\* the result of a function applied in slot p
Returned(p, result) ==
    /\ resp' = result
    /\ local' = [local EXCEPT ![p] = NoLocal]
    /\ UNCHANGED <<now, provisioned, websiteAnalysisByEmail, pc, otpVars, dbVars>>

\* sanitizeText as a function of its argument: every text of at most MaxText
\* code points, one from each class the patterns tell apart
SanitizeChars ==
    {"a", " "} \cup (DOMAIN CodePoints \ {"U+3000", "U+200B"})
RECURSIVE TextsOver(_, _)
TextsOver(chars, n) ==
    IF n = 0 THEN {<<>>}
    ELSE LET shorter == TextsOver(chars, n - 1) IN
         shorter \cup {Append(t, c) : t \in shorter, c \in chars}
SanitizeTexts(n) == TextsOver(SanitizeChars, n)

InitSanitize == \E x \in SanitizeTexts(MaxText) : InitWith([op |-> "sanitize", text |-> x])

SanitizeText(p) ==
    /\ local[p].op = "sanitize"
    /\ Returned(p, [ email   |-> <<>>,
                     status  |-> 0,
                     message |-> "sanitized",
                     input   |-> local[p].text,
                     text    |-> sanitizeText(local[p].text) ])

NextSanitize == \E p \in PipelineProcs : SanitizeText(p)

SpecSanitize == InitSanitize /\ [][NextSanitize]_vars

\* the analysis as a function of the email and the fetched page: the page
\* has a <title> text and a first <h1> text from these, or none
TitleTexts ==
    { <<>>, <<" ">>, <<"A","c","m","e">>, <<" ","H","i"," ">>,
      Untitled, toLowerCase(Untitled), <<"U","N","T","I","T","L","E","D">>,
      Untitled \o <<" ","1">> }
TitlePages ==
    [ title : TitleTexts, h1 : TitleTexts, description : {"d1"}, content : {"c1"} ]
TitleEmails ==
    { Email_a, Email_b,
      <<"u","@","w","w","w",".","a","c","m","e",".","i","o">> }

InitAnalyze ==
    \E e \in TitleEmails, page \in TitlePages :
        InitWith([op |-> "analyze", email |-> e, page |-> page])

\* analyzeWebsiteFromEmail once the page is fetched, pdf.ts:343-368
AnalyzeWebsite(p) ==
    /\ local[p].op = "analyze"
    /\ Returned(p, [ email     |-> local[p].email,
                     status    |-> 0,
                     message   |-> "analysis",
                     page      |-> local[p].page,
                     extracted |-> extractTitle(local[p].page),
                     analysis  |-> analysisOf(crawlerDomainOf(local[p].email),
                                              local[p].page) ])

NextAnalyze == \E p \in PipelineProcs : AnalyzeWebsite(p)

SpecAnalyze == InitAnalyze /\ [][NextAnalyze]_vars

\* generateWebsitePdf as a function of its input, one drawText call per step.
\* The content is up to MaxWords words of 41 letters, so that every word
\* takes a line of its own; the other fields are short texts.
LongWord == [i \in 1..41 |-> "a"]
RECURSIVE WordsText(_)
WordsText(n) ==
    IF n = 0 THEN <<>>
    ELSE IF n = 1 THEN LongWord
    ELSE WordsText(n - 1) \o <<" ">> \o LongWord
PdfTitles == { <<"A","c","m","e">>, <<"A","U+2003","U+1F600","B">> }
PdfDescriptions == { <<"N","o"," ","d","e","s","c">>, <<"d","U+00A0"," ","U+2708","e">> }
PdfInputs(n) ==
    [ domain        : { <<"x",".","i","o">> },
      title         : PdfTitles,
      description   : PdfDescriptions,
      content       : {WordsText(k) : k \in 0..n},
      knowledgeBase : { <<"#"," ">> \o WordsText(2) } ]

InitPdf == \E input \in PdfInputs(MaxWords) : InitWith([op |-> "render", input |-> input])

\* page.drawText(text, {y, size}) on the latest page
DrawText(kind, text, y, size, page) ==
    [ email |-> <<>>, status |-> 0, message |-> "drawText",
      kind |-> kind, text |-> text, y |-> y, size |-> size, page |-> page ]

PdfUnchanged ==
    UNCHANGED <<now, provisioned, websiteAnalysisByEmail, otpVars,
                chat_ainager, chat_document, nextAinagerId, nextDocumentId,
                checkedOut, openTx>>

\* pdf.ts:81-83: the first page with its header
PdfStart(p) ==
    /\ pc[p] = "idle"
    /\ local[p].op = "render"
    /\ "cursorY" \notin DOMAIN local[p]
    /\ resp' = DrawText("header", headerText(local[p].input.title),
                        PageHeight - Margin, TitleSize, 1)
    /\ local' = [local EXCEPT ![p] =
           [ op |-> "render", input |-> local[p].input, pages |-> 1,
             cursorY |-> PageHeight - Margin - 3000,
             section |-> 1, lines |-> <<>>, printed |-> 0 ]]
    /\ pc' = [pc EXCEPT ![p] = "heading"]
    /\ files' = files
    /\ PdfUnchanged

\* pdf.ts:86-98: the heading of the next section, and its body wrapped
DrawHeading(p) ==
    /\ pc[p] = "heading"
    /\ LET l == local[p] IN
       /\ resp' = DrawText("heading", sanitizeText(SectionHeadings[l.section]),
                           l.cursorY, HeadingSize, l.pages)
       /\ local' = [local EXCEPT ![p] =
              [l EXCEPT !.cursorY = l.cursorY - (HeadingSize + 600),
                        !.lines = wrapText(sectionBody(l.input, l.section),
                                           approxCharsPerLine),
                        !.printed = 0]]
    /\ pc' = [pc EXCEPT ![p] = "line"]
    /\ files' = files
    /\ PdfUnchanged

\* pdf.ts:102-106: a line is due and the cursor is too low for it
PageBreak(p) ==
    /\ pc[p] = "line"
    /\ LET l == local[p] IN
       /\ l.lines # <<>>
       /\ l.printed < DefaultMaxLines
       /\ l.cursorY < Margin + LineHeight
       /\ resp' = DrawText("header", headerText(l.input.title),
                           PageHeight - Margin, TitleSize, l.pages + 1)
       /\ local' = [local EXCEPT ![p] =
              [l EXCEPT !.pages = l.pages + 1,
                        !.cursorY = PageHeight - Margin - 1000]]
    /\ UNCHANGED <<pc, files>>
    /\ PdfUnchanged

\* pdf.ts:107-109
DrawLine(p) ==
    /\ pc[p] = "line"
    /\ LET l == local[p] IN
       /\ l.lines # <<>>
       /\ l.printed < DefaultMaxLines
       /\ l.cursorY >= Margin + LineHeight
       /\ resp' = DrawText("line", Head(l.lines), l.cursorY, BodySize, l.pages)
       /\ local' = [local EXCEPT ![p] =
              [l EXCEPT !.cursorY = l.cursorY - LineHeight,
                        !.lines = Tail(l.lines),
                        !.printed = l.printed + 1]]
    /\ UNCHANGED <<pc, files>>
    /\ PdfUnchanged

\* pdf.ts:100-101, 111: the loop is over
EndSection(p) ==
    /\ pc[p] = "line"
    /\ LET l == local[p] IN
       /\ l.lines = <<>> \/ l.printed >= DefaultMaxLines
       /\ resp' = NoResp
       /\ local' = [local EXCEPT ![p] =
              [l EXCEPT !.cursorY = l.cursorY - 1000,
                        !.lines = <<>>,
                        !.section = l.section + 1]]
       /\ pc' = [pc EXCEPT ![p] = IF l.section = Len(SectionHeadings)
                                  THEN "save" ELSE "heading"]
    /\ files' = files
    /\ PdfUnchanged

\* pdf.ts:119-125
PdfSave(p) ==
    /\ pc[p] = "save"
    /\ LET pdfFilePath == pdfPathOf(local[p].input.domain, now) IN
       /\ files' = files \cup {pdfFilePath}
       /\ resp' = [ email |-> <<>>, status |-> 0, message |-> "saved",
                    filePath |-> pdfFilePath, pages |-> local[p].pages ]
    /\ local' = [local EXCEPT ![p] = NoLocal]
    /\ pc' = [pc EXCEPT ![p] = "idle"]
    /\ PdfUnchanged

NextPdf ==
    \/ \E p \in PipelineProcs : PdfStart(p)
    \/ \E p \in PipelineProcs : DrawHeading(p)
    \/ \E p \in PipelineProcs : PageBreak(p)
    \/ \E p \in PipelineProcs : DrawLine(p)
    \/ \E p \in PipelineProcs : EndSection(p)
    \/ \E p \in PipelineProcs : PdfSave(p)

SpecPdf == InitPdf /\ [][NextPdf]_vars

\* identifyBusinessType as a function of the content: the content is made of
\* at most MaxFragments pieces, a keyword of a family (one in capitals), a
\* word holding keywords of two families, or a word holding none; every
\* keyword also occurs next to every other in a content of two pieces
CoreFragments ==
    { <<"l","o","a","n"," ">>, <<"C","L","I","N","I","C"," ">>,
      <<"a","p","p"," ">>, <<"a","d","v","i","s","o","r","y"," ">>,
      <<"s","h","o","p"," ">>, <<"w","e"," ">>,
      <<"H","e","a","l","t","h","T","e","c","h"," ">> }
RECURSIVE ContentsOver(_, _)
ContentsOver(fragments, n) ==
    IF n = 0 THEN {<<>>}
    ELSE LET shorter == ContentsOver(fragments, n - 1)
         IN  shorter \cup {c \o f : c \in shorter, f \in fragments}
BusinessContents(n) ==
    ContentsOver(CoreFragments, n)
    \cup ContentsOver(UNION {BusinessKeywords[f] : f \in 1..5} \cup {<<"s"," ">>}, 2)

InitBusiness == \E c \in BusinessContents(MaxFragments) : InitWith([op |-> "businessType", content |-> c])

IdentifyBusinessType(p) ==
    /\ local[p].op = "businessType"
    /\ Returned(p, [ email        |-> <<>>,
                     status       |-> 0,
                     message      |-> "businessType",
                     content      |-> local[p].content,
                     businessType |-> identifyBusinessType(local[p].content) ])

NextBusiness == \E p \in PipelineProcs : IdentifyBusinessType(p)

SpecBusiness == InitBusiness /\ [][NextBusiness]_vars

\* extractContent's content as a function of the page: <body> holds at most
\* MaxChildren nodes, each a text, a container of one kind with a text, a
\* container in a container, an element that is removed, or a text longer
\* than the limit
TextNode(t) == [text |-> t]
Element(tag, class, kids) == [tag |-> tag, class |-> class, kids |-> kids]
LongText == [i \in 1..(ContentLimit + 1) |-> "a"]
BodyNodes ==
    { TextNode(<<"B","y","e"," ","\n">>),
      Element("main", {}, <<TextNode(<<"H","i"," "," ">>)>>),
      Element("div", {"main"}, <<TextNode(<<"m"," ">>)>>),
      Element("div", {"content"}, <<TextNode(<<"c"," ">>)>>),
      Element("div", {"container"},
              <<Element("main", {}, <<TextNode(<<"i","n"," ">>)>>), TextNode(<<"k"," ">>)>>),
      Element("nav", {}, <<TextNode(<<"n"," ">>)>>),
      Element("p", {}, <<TextNode(<<"p"," ">>)>>),
      TextNode(LongText) }
RECURSIVE NodeLists(_)
NodeLists(n) ==
    IF n = 0 THEN {<<>>}
    ELSE LET shorter == NodeLists(n - 1)
         IN  shorter \cup {Append(l, k) : l \in shorter, k \in BodyNodes}
ContentBodies(n) == {Element("body", {}, kids) : kids \in NodeLists(n)}

InitContent == \E b \in ContentBodies(MaxChildren) : InitWith([op |-> "content", body |-> b])

ExtractContent(p) ==
    /\ local[p].op = "content"
    /\ Returned(p, [ email   |-> <<>>,
                     status  |-> 0,
                     message |-> "content",
                     body    |-> local[p].body,
                     content |-> extractMainContent(local[p].body) ])

NextContent == \E p \in PipelineProcs : ExtractContent(p)

SpecContent == InitContent /\ [][NextContent]_vars

(***************************************************************************)
(* client/src/pages/onboarding.tsx: the onboarding page.  The component's  *)
(* state (useState), the counter closed over by updateStep and the timers  *)
(* setTimeout has scheduled are the local variables of the first slot.     *)
(***************************************************************************)
\* /^[^\s@]+@[^\s@]+\.[^\s@]+$/.test(email)
validateEmail(email) ==
    LET parts == split(email, "@") IN
    /\ \A i \in 1..Len(email) : ~isWhitespace(email[i])
    /\ Len(parts) = 2
    /\ parts[1] # <<>>
    /\ \E i \in 2..(Len(parts[2]) - 1) : parts[2][i] = "."

\* onboarding.tsx:24-29, the four steps of the progress screen
StepCount == 4
InitialSteps == [i \in 1..StepCount |-> [completed |-> FALSE, active |-> FALSE]]

\* onboarding.tsx:20-31: the component as mounted
InitialPage ==
    [ op |-> "page", currentScreen |-> "email", email |-> <<>>, otp |-> <<>>,
      emailError |-> "", progressSteps |-> InitialSteps, progressPercentage |-> 0,
      currentStep |-> 0, timers |-> {} ]

InitPage == InitWith(InitialPage)

\* one event of the page: the component's new state and the toast shown
PageEvent(p, page, toast) ==
    /\ local' = [local EXCEPT ![p] = page]
    /\ resp' = IF toast = "" THEN NoResp ELSE [NoResp EXCEPT !.message = toast]
    /\ UNCHANGED <<now, provisioned, websiteAnalysisByEmail, pc, otpVars, dbVars>>

\* onboarding.tsx:71-104, one call of updateStep
updateStep(page) ==
    LET currentStep == page.currentStep
        done == IF currentStep > 0
                THEN [page EXCEPT !.progressSteps[currentStep] =
                                      [completed |-> TRUE, active |-> FALSE]]
                ELSE page
    IN  IF currentStep < StepCount
        THEN LET next == [done EXCEPT !.progressSteps[currentStep + 1].active = TRUE,
                                      !.progressPercentage =
                                          ((currentStep + 1) * 100) \div StepCount,
                                      !.currentStep = currentStep + 1]
             IN  IF next.currentStep <= StepCount
                 THEN [next EXCEPT !.timers = @ \cup {"updateStep"}]
                 ELSE [next EXCEPT !.timers = @ \cup {"success"}]
        ELSE done

\* the user types into the input of the screen shown
TypeEmail(p, email) ==
    /\ local[p].op \in {"page", "apiPage"}
    /\ local[p].currentScreen = "email"
    /\ PageEvent(p, [local[p] EXCEPT !.email = email], "")

TypeOtp(p, code) ==
    /\ local[p].op \in {"page", "apiPage"}
    /\ local[p].currentScreen = "otp"
    /\ PageEvent(p, [local[p] EXCEPT !.otp = code], "")

\* onboarding.tsx:39-46
handleEmailSubmit(p) ==
    /\ local[p].op = "page"
    /\ local[p].currentScreen = "email"
    /\ IF ~validateEmail(local[p].email)
       THEN PageEvent(p, [local[p] EXCEPT
                             !.emailError = "Please enter a valid email address"], "")
       ELSE PageEvent(p, [local[p] EXCEPT !.emailError = "",
                                           !.currentScreen = "otp"], "")

\* onboarding.tsx:48-59 and simulateProgress, 68-107: the first updateStep
\* runs in the click
handleOTPVerify(p) ==
    /\ local[p].op = "page"
    /\ local[p].currentScreen = "otp"
    /\ IF Len(local[p].otp) # CodeLength
       THEN PageEvent(p, local[p], "Invalid Code")
       ELSE PageEvent(p, updateStep([local[p] EXCEPT !.currentScreen = "progress",
                                                     !.currentStep = 0]), "")

\* onboarding.tsx:61-66
handleResendOTP(p) ==
    /\ local[p].op = "page"
    /\ local[p].currentScreen = "otp"
    /\ PageEvent(p, local[p], "Code Sent")

\* a timer set by setTimeout fires and runs its callback
TimerFires(p) ==
    /\ local[p].op = "page"
    /\ \E timer \in local[p].timers :
          LET page == [local[p] EXCEPT !.timers = @ \ {timer}] IN
          IF timer = "updateStep"
          THEN PageEvent(p, updateStep(page), "")
          ELSE PageEvent(p, [page EXCEPT !.currentScreen = "success"], "")

NextPage ==
    \/ \E p \in PipelineProcs, e \in AllEmails : TypeEmail(p, e)
    \/ \E p \in PipelineProcs, c \in Codes : TypeOtp(p, c)
    \/ \E p \in PipelineProcs : handleEmailSubmit(p)
    \/ \E p \in PipelineProcs : handleOTPVerify(p)
    \/ \E p \in PipelineProcs : handleResendOTP(p)
    \/ \E p \in PipelineProcs : TimerFires(p)

SpecPage == InitPage /\ [][NextPage]_vars

(***************************************************************************)
(* The onboarding page that talks to the server (part_000).  An awaited    *)
(* fetch cuts a handler in two: the page records what it is awaiting, and  *)
(* the response the server sends is drawn from the responses the route can *)
(* give.  resp is the latest response the page has received.               *)
(***************************************************************************)
\* part_000:46-48
publicDomains ==
    { <<"g","m","a","i","l",".","c","o","m">>,
      <<"y","a","h","o","o",".","c","o","m">>,
      <<"y","a","h","o","o",".","c","o",".","i","n">>,
      <<"o","u","t","l","o","o","k",".","c","o","m">>,
      <<"h","o","t","m","a","i","l",".","c","o","m">>,
      <<"l","i","v","e",".","c","o","m">>,
      <<"m","s","n",".","c","o","m">>,
      <<"i","c","l","o","u","d",".","c","o","m">>,
      <<"m","e",".","c","o","m">>,
      <<"m","a","c",".","c","o","m">>,
      <<"a","o","l",".","c","o","m">>,
      <<"p","r","o","t","o","n",".","m","e">>,
      <<"p","r","o","t","o","n","m","a","i","l",".","c","o","m">>,
      <<"g","m","x",".","c","o","m">>,
      <<"m","a","i","l",".","c","o","m">>,
      <<"z","o","h","o",".","c","o","m">>,
      <<"y","a","n","d","e","x",".","c","o","m">>,
      <<"h","e","y",".","c","o","m">>,
      <<"d","u","c","k",".","c","o","m">> }

\* part_000:214, the link the page holds before a create has answered
DefaultLink == ShareablePrefix \o <<"c","o","m","p","a","n","y">>

\* part_000:18-33 and 214: the component as mounted
InitialApiPage ==
    [ op |-> "apiPage", currentScreen |-> "email", email |-> <<>>, otp |-> <<>>,
      emailError |-> "", websiteInfo |-> "null", otpSent |-> FALSE,
      isLoading |-> FALSE, progressSteps |-> InitialSteps, progressPercentage |-> 0,
      currentStep |-> 0, timers |-> {}, generatedLink |-> DefaultLink,
      awaiting |-> "", toast |-> "" ]

InitApiPage == InitWith(InitialApiPage)

\* one event of the page: its new state; a timer or a click receives nothing
ApiPageEvent(p, page, received) ==
    /\ local' = [local EXCEPT ![p] = page]
    /\ resp' = received
    /\ UNCHANGED <<now, provisioned, websiteAnalysisByEmail, pc, otpVars, dbVars>>

\* what POST /api/auth/request-otp, /api/auth/verify-otp and
\* /api/ainager/create may answer
RequestOtpResponses ==
    { [NoResp EXCEPT !.status = 200, !.message = "OTP sent"],
      [NoResp EXCEPT !.status = 429, !.message = "OTP already sent"],
      [NoResp EXCEPT !.status = 500, !.message = "Failed to send OTP"] }

VerifyOtpResponses ==
    { [status |-> 200, message |-> "OTP verified", websiteInfo |-> "acme"],
      [status |-> 200, message |-> "OTP verified"],
      [status |-> 400, message |-> "Invalid or expired code"] }

CreateResponses ==
    { [status |-> 200, message |-> "created", shareableLink |-> shareableLinkOf(<<"A","c","m","e">>)],
      [status |-> 200, message |-> "created", shareableLink |-> shareableLinkOf(<<"X">>)],
      [status |-> 400, message |-> "Website not analyzed"],
      [status |-> 500, message |-> "Failed to create ainager"] }

\* part_000:153-208, one call of updateStep up to its await or its end
updateStepApi(page) ==
    LET currentStep == page.currentStep
        done == IF currentStep > 0
                THEN [page EXCEPT !.progressSteps[currentStep] =
                                      [completed |-> TRUE, active |-> FALSE]]
                ELSE page
    IN  IF currentStep < StepCount
        THEN LET next == [done EXCEPT !.progressSteps[currentStep + 1].active = TRUE,
                                      !.progressPercentage =
                                          ((currentStep + 1) * 100) \div StepCount,
                                      !.currentStep = currentStep + 1]
             IN  IF next.currentStep < StepCount
                 THEN [next EXCEPT !.timers = @ \cup {"updateStep"}]
                 ELSE [next EXCEPT !.awaiting = "create"]
        ELSE done

\* part_000:39-65, the click up to the fetch
handleEmailSubmitApi(p) ==
    LET page == local[p]
        domain == toLowerCase(split(page.email, "@")[2])
    IN  /\ page.op = "apiPage"
        /\ page.currentScreen = "email"
        /\ ~page.isLoading
        /\ ~page.otpSent
        /\ IF ~validateEmail(page.email)
           THEN ApiPageEvent(p, [page EXCEPT
                    !.emailError = "Please enter a valid email address"], resp)
           ELSE IF domain \in publicDomains
           THEN ApiPageEvent(p, [page EXCEPT
                    !.emailError = "Please use your company email address"], resp)
           ELSE ApiPageEvent(p, [page EXCEPT !.emailError = "", !.isLoading = TRUE,
                                             !.awaiting = "request-otp"], resp)

\* part_000:66-78, the answer to request-otp
RequestOtpAnswered(p, response) ==
    LET page == [local[p] EXCEPT !.awaiting = "", !.isLoading = FALSE] IN
    /\ local[p].op = "apiPage"
    /\ local[p].awaiting = "request-otp"
    /\ IF response.status # 200
       THEN ApiPageEvent(p, [page EXCEPT !.emailError = response.message], response)
       ELSE ApiPageEvent(p, [page EXCEPT !.otpSent = TRUE,
                                         !.currentScreen = "otp"], response)

\* part_000:81-100, the click up to the fetch
handleOTPVerifyApi(p) ==
    LET page == local[p] IN
    /\ page.op = "apiPage"
    /\ page.currentScreen = "otp"
    /\ ~page.isLoading
    /\ IF Len(page.otp) # CodeLength
       THEN ApiPageEvent(p, [page EXCEPT !.toast = "Invalid Code"], resp)
       ELSE ApiPageEvent(p, [page EXCEPT !.isLoading = TRUE,
                                         !.awaiting = "verify-otp"], resp)

\* part_000:102-119, the answer to verify-otp; simulateProgress (144-211)
\* runs its first updateStep at once
VerifyOtpAnswered(p, response) ==
    LET page == [local[p] EXCEPT !.awaiting = "", !.isLoading = FALSE] IN
    /\ local[p].op = "apiPage"
    /\ local[p].awaiting = "verify-otp"
    /\ IF response.status # 200
       THEN ApiPageEvent(p, [page EXCEPT !.toast = "Verification failed"], response)
       ELSE ApiPageEvent(p,
                updateStepApi([page EXCEPT
                    !.websiteInfo = IF "websiteInfo" \in DOMAIN response
                                    THEN response.websiteInfo ELSE @,
                    !.currentScreen = "progress",
                    !.currentStep = 0]), response)

\* part_000:128-142
handleResendOTPApi(p) ==
    /\ local[p].op = "apiPage"
    /\ local[p].currentScreen = "otp"
    /\ ApiPageEvent(p, [local[p] EXCEPT !.toast = IF local[p].otpSent
                                                  THEN "OTP Already Sent"
                                                  ELSE "Resend Available"], resp)

\* part_000:180-206, the answer to create: the link is taken from a
\* successful answer, a failure is shown as a toast, and in both cases the
\* timer that finishes the progress screen is set
CreateAnswered(p, response) ==
    LET page == [local[p] EXCEPT !.awaiting = "", !.timers = @ \cup {"finish"}] IN
    /\ local[p].op = "apiPage"
    /\ local[p].awaiting = "create"
    /\ IF response.status # 200
       THEN ApiPageEvent(p, [page EXCEPT !.toast = "Setup error"], response)
       ELSE ApiPageEvent(p, [page EXCEPT !.generatedLink = response.shareableLink],
                         response)

\* a timer set by setTimeout fires and runs its callback (part_000:177,
\* 194-205)
ApiTimerFires(p) ==
    /\ local[p].op = "apiPage"
    /\ \E timer \in local[p].timers :
          LET page == [local[p] EXCEPT !.timers = @ \ {timer}] IN
          CASE timer = "updateStep" -> ApiPageEvent(p, updateStepApi(page), resp)
            [] timer = "finish" ->
                 ApiPageEvent(p, [page EXCEPT
                     !.progressSteps[StepCount] = [completed |-> TRUE, active |-> FALSE],
                     !.timers = @ \cup {"success"}], resp)
            [] OTHER -> ApiPageEvent(p, [page EXCEPT !.currentScreen = "success"], resp)

ApiPageEmails == {Email_a, Email_Gmail, Email_noDot}

NextApiPage ==
    \/ \E p \in PipelineProcs, e \in ApiPageEmails : TypeEmail(p, e)
    \/ \E p \in PipelineProcs, c \in Codes : TypeOtp(p, c)
    \/ \E p \in PipelineProcs : handleEmailSubmitApi(p)
    \/ \E p \in PipelineProcs, r \in RequestOtpResponses : RequestOtpAnswered(p, r)
    \/ \E p \in PipelineProcs : handleOTPVerifyApi(p)
    \/ \E p \in PipelineProcs, r \in VerifyOtpResponses : VerifyOtpAnswered(p, r)
    \/ \E p \in PipelineProcs : handleResendOTPApi(p)
    \/ \E p \in PipelineProcs, r \in CreateResponses : CreateAnswered(p, r)
    \/ \E p \in PipelineProcs : ApiTimerFires(p)

SpecApiPage == InitApiPage /\ [][NextApiPage]_vars

(***************************************************************************)
(* Properties                                                              *)
(***************************************************************************)
KeyA == toLowerCase(Email_a)
KeyB == toLowerCase(Email_b)
\* the store key of every email a client may send
KeyOf == [e \in AllEmails |-> toLowerCase(e)]
InvalidCode == "Invalid or expired code"

\* the inputs that pass the handlers' schema validation
WellFormedEmails == {e \in Emails : zodEmail(e)}
WellFormedCodes == {c \in Codes : zodCode(c)}

\* the OTP record of key k exists and has not expired
ActiveRecord(k) == MapHas(otpByEmail, k) /\ now <= otpByEmail[k].expiresAt

\* this step starts a request in slot p, and no other slot moves
StartsIn(p) ==
    /\ pc[p] = "idle"
    /\ now' = now
    /\ \A q \in Procs \ {p} : pc'[q] = pc[q] /\ local'[q] = local[q]

\* C1: while a stored record for an email is neither expired nor consumed,
\* a request-otp for that email is answered 429, stores no code, sends no
\* email and leaves the record as it is.
C1_SecondRequestRateLimited ==
    [][\A p \in Procs, e \in Emails :
          (ActiveRecord(KeyOf[e]) /\ StartsIn(p) /\ ReqOtpCheck(p, e))
              => /\ resp'.status = 429
                 /\ resp'.email = e
                 /\ otpByEmail' = otpByEmail
                 /\ sent' = sent
                 /\ pc' = pc]_vars

C1_Witness ==
    /\ resp.status = 429
    /\ resp.email = Email_a
    /\ ActiveRecord(KeyA)
    /\ <<Email_a, otpByEmail[KeyA].code>> \in sent

\* C2: between two saveOtp calls for an email, verifyOtp returns true for
\* that email at most once.
C2_VerifyAtMostOnce ==
    \A k \in Keys : okSinceIssue[k] <= 1

C2_Witness ==
    /\ okSinceIssue[KeyA] = 1
    /\ ~MapHas(otpByEmail, KeyA)
    /\ resp = Reply(Email_a, 400, InvalidCode)

\* C3: a verify-otp after expiresAt is rejected whatever the code and evicts
\* the record; at now = expiresAt the right code is still accepted and
\* request-otp still finds the record active.
C3_ExpiryBoundary ==
    [][\A p \in Procs, e \in Emails :
          LET k == KeyOf[e] IN
          (MapHas(otpByEmail, k) /\ now >= otpByEmail[k].expiresAt /\ StartsIn(p)) =>
              /\ \A c \in WellFormedCodes :
                    (now > otpByEmail[k].expiresAt /\ VerifyOtp(p, e, c))
                        => /\ resp' = Reply(e, 400, InvalidCode)
                           /\ ~MapHas(otpByEmail', k)
                           /\ pc' = pc
              /\ (now = otpByEmail[k].expiresAt /\ VerifyOtp(p, e, otpByEmail[k].code))
                     => pc'[p] = "fetch"
              /\ (now = otpByEmail[k].expiresAt /\ ReqOtpCheck(p, e))
                     => resp'.status = 429]_vars

\* a delivered code whose record is gone although no verify succeeded since
\* it was issued: the record was evicted by a verify after expiry
C3_Witness ==
    /\ sent # {}
    /\ okSinceIssue[KeyA] = 0
    /\ ~MapHas(otpByEmail, KeyA)
    /\ resp = Reply(Email_a, 400, InvalidCode)

\* C4: verify-otp with no record, or with a code other than the stored one,
\* is answered 400 by the handler itself (nothing is thrown); a mismatch on
\* an unexpired record leaves the store as it is, and the right code on an
\* unexpired record is accepted.
C4_FailClosed ==
    [][\A p \in Procs, e \in WellFormedEmails, c \in WellFormedCodes :
          LET k == KeyOf[e] IN
          (StartsIn(p) /\ (resp'.email = e \/ pc'[p] # pc[p]) /\ VerifyOtp(p, e, c)) =>
              /\ (~MapHas(otpByEmail, k) \/ otpByEmail[k].code # c)
                     => /\ resp' = Reply(e, 400, InvalidCode)
                        /\ pc' = pc
                        /\ ActiveRecord(k) => otpByEmail' = otpByEmail
              /\ (ActiveRecord(k) /\ otpByEmail[k].code = c)
                     => pc'[p] = "fetch"]_vars

\* a rejected verify that left an unexpired record behind
C4_Witness ==
    /\ resp = Reply(Email_a, 400, InvalidCode)
    /\ ActiveRecord(KeyA)

\* C5: the active-OTP check changes neither store (a stale record stays),
\* and it reports an active code exactly when a record exists with
\* now <= expiresAt.
C5_HasActiveOtpPure ==
    [][\A p \in Procs, e \in CompanyEmails :
          (StartsIn(p) /\ ReqOtpCheck(p, e)) =>
              /\ otpByEmail' = otpByEmail
              /\ websiteAnalysisByEmail' = websiteAnalysisByEmail
              /\ (resp'.status = 429) <=> ActiveRecord(KeyOf[e])]_vars

\* a request past the check while the stale record is still in the store
C5_Witness ==
    \E p \in Procs :
        /\ pc[p] = "save"
        /\ resp = NoResp
        /\ MapHas(otpByEmail, toLowerCase(local[p].email))
        /\ now > otpByEmail[toLowerCase(local[p].email)].expiresAt

\* C6: a code is issued only while no unexpired record exists for the email,
\* whatever the interleaving of concurrent request-otp calls (the check and
\* the issue act as one atomic step per email).
C6_IssueOnlyWithoutActiveCode ==
    [][\A p \in Procs, n \in RandomInts :
          (pc[p] = "save" /\ ReqOtpSave(p, n))
              => ~ActiveRecord(toLowerCase(local[p].email))]_vars

\* the addresses C7 speaks of: not exactly two parts at "@", no "." in the
\* domain, or a lower-cased domain on the deny-list
NotCompanyEmails ==
    {e \in Emails :
        LET parts == split(e, "@") IN
        \/ Len(parts) # 2
        \/ ~includes(parts[2], ".")
        \/ toLowerCase(parts[2]) \in FREE_EMAIL_DOMAINS}

\* C7: request-otp for a deny-listed or malformed address is answered 400,
\* leaves the OTP store as it is, sends no email and goes no further.
C7_NonCompanyEmailRejected ==
    [][\A p \in Procs, e \in NotCompanyEmails :
          (StartsIn(p) /\ (resp'.email = e \/ pc'[p] # pc[p])
             /\ ReqOtpCheck(p, e))
              => /\ resp'.status = 400
                 /\ resp'.email = e
                 /\ otpByEmail' = otpByEmail
                 /\ sent' = sent
                 /\ pc' = pc]_vars

C7_Witness ==
    /\ resp = Reply(Email_Gmail, 400, "Please use your company email address.")
    /\ ~MapHas(otpByEmail, KeyOf[Email_Gmail])
    /\ \A x \in sent : x[1] # Email_Gmail

\* the artifact slug of the domain of every key
SlugOf == [k \in Keys |-> slugify(crawlerDomainOf(k))]

\* the email of the create request in slot p
CreateEmail(p) == IF pc[p] = "pdf" THEN local[p].email ELSE local[p].input.email

\* analyses, fetches, artifacts and rows exist only for verified emails
C8_OnlyForVerified ==
    /\ \A k \in DOMAIN websiteAnalysisByEmail : k \in verifiedOk
    /\ \A p \in Procs :
          /\ pc[p] = "fetch" => KeyOf[local[p].email] \in verifiedOk
          /\ local[p].op = "create" => KeyOf[CreateEmail(p)] \in verifiedOk
    /\ \A f \in files :
          \E k \in verifiedOk : f.slug = SlugOf[k]
    /\ \A r \in chat_ainager : KeyOf[r.corpmail] \in verifiedOk
    /\ \A d \in chat_document :
          /\ d.file \in files
          /\ \E r \in chat_ainager : r.ainager_id = d.ainager_id

\* C8: a WebsiteAnalysis is stored, a website fetched, an artifact written or
\* a tenant/document row inserted only for an email for which a verify-otp
\* with the stored, unexpired code went before; a verify-otp with any other
\* code is answered 400 and runs no analysis.
C8_AnalysisOnlyAfterVerification ==
    /\ []C8_OnlyForVerified
    /\ [][\A p \in PipelineProcs, e \in PipelineEmails, c \in WellFormedCodes :
             (StartsIn(p) /\ (resp'.email = e \/ pc'[p] # pc[p])
                /\ ~(ActiveRecord(KeyOf[e]) /\ otpByEmail[KeyOf[e]].code = c)
                /\ VerifyOtp(p, e, c))
                 => /\ resp' = Reply(e, 400, InvalidCode)
                    /\ pc' = pc
                    /\ websiteAnalysisByEmail' = websiteAnalysisByEmail]_vars

C8_Witness ==
    /\ chat_document # {}
    /\ MapHas(websiteAnalysisByEmail, KeyA)
    /\ KeyA \in verifiedOk
    /\ KeyB \notin verifiedOk
    /\ resp = Reply(Email_b, 400, InvalidCode)

AnyCodeRejected(m, e) == \A c \in Codes : ~verifyOtpResult(m, e, c, now)

\* C9: an accepted verify-otp has consumed the record before the analysis
\* runs; when the analysis fails the call is answered 400, stores no
\* analysis and does not restore the record, so that every code is rejected
\* for that email until a new request-otp issues one.
C9_FailedAnalysisNotResumable ==
    [][\A p \in Procs :
          /\ (pc[p] = "idle" /\ pc'[p] = "fetch")
                 => ~MapHas(otpByEmail', toLowerCase(local'[p].email))
          /\ (pc[p] = "fetch" /\ VerifyFetch(p, FetchError))
                 => LET e == local[p].email IN
                    /\ resp' = Reply(e, 400, AnalysisFailed)
                    /\ websiteAnalysisByEmail' = websiteAnalysisByEmail
                    /\ otpByEmail' = otpByEmail
                    /\ pc'[p] = "idle"
                    /\ okSinceIssue[toLowerCase(e)] >= 1
                           => AnyCodeRejected(otpByEmail', e)]_vars

C9_Witness ==
    /\ resp = Reply(Email_a, 400, AnalysisFailed)
    /\ okSinceIssue[KeyA] = 1
    /\ ~MapHas(otpByEmail, KeyA)
    /\ ~MapHas(websiteAnalysisByEmail, KeyA)

\* C10: create for an email with no stored analysis is answered 400 and does
\* nothing else: no file, no connection, no row, no further step.
C10_CreateWithoutAnalysis ==
    [][\A p \in PipelineProcs, e \in PipelineEmails :
          (~MapHas(websiteAnalysisByEmail, KeyOf[e]) /\ StartsIn(p)
             /\ (resp'.email = e \/ pc'[p] # pc[p]) /\ CreateStart(p, e))
              => /\ resp' = Reply(e, 400, AnalysisNotFound)
                 /\ pc' = pc
                 /\ local' = local
                 /\ UNCHANGED dbVars
                 /\ UNCHANGED <<otpByEmail, websiteAnalysisByEmail>>]_vars

\* the unverified email is turned away while the verified one has rows
C10_Witness ==
    /\ resp = Reply(Email_b, 400, AnalysisNotFound)
    /\ ~MapHas(websiteAnalysisByEmail, KeyB)
    /\ MapHas(websiteAnalysisByEmail, KeyA)
    /\ chat_ainager # {}

\* the committed tenant rows of a name
TenantsNamed(rows, name) == {r \in rows : r.ainager_name = name}

\* the create in slot p commits in this step
Commits(p) == pc[p] = "commit" /\ pc'[p] = "idle" /\ resp'.status = 200

\* C11: when full pipeline runs for emails of one domain follow one another,
\* every committed create leaves exactly one tenant row of the domain's
\* name and adds one document row with a fresh id; all document rows
\* reference that tenant row.
C11_RerunKeepsOneTenant ==
    [][\A p \in PipelineProcs :
          Commits(p) =>
              LET tenants == TenantsNamed(chat_ainager', local[p].ainagerName) IN
              /\ Cardinality(tenants) = 1
              /\ Cardinality(chat_ainager') = 1
              /\ Cardinality(chat_document') = Cardinality(chat_document) + 1
              /\ \A d \in chat_document' : \E r \in tenants : d.ainager_id = r.ainager_id
              /\ \A d1, d2 \in chat_document' :
                    d1.document_id = d2.document_id => d1 = d2]_vars

\* two runs, for two emails of the domain: one tenant row, two documents
C11_Witness ==
    /\ Cardinality(chat_ainager) = 1
    /\ Cardinality(chat_document) = 2
    /\ \E r \in chat_ainager : r.corpmail = Email_a
    /\ resp.status = 200
    /\ resp.email = Email_c
    /\ "documentId" \in DOMAIN resp
    /\ resp.documentId = 2

\* the positions of a create between beginTransaction and commit
TxSteps == {"select", "ainager", "document", "commit"}

\* the error each statement of the transaction throws when it fails
StepError ==
    [ select   |-> "SELECT failed",
      ainager  |-> "chat_ainager write failed",
      document |-> "chat_document insert failed",
      commit   |-> "commit failed" ]

\* every tenant row has a document row and every document row its tenant
PairsComplete ==
    /\ \A r \in chat_ainager : \E d \in chat_document : d.ainager_id = r.ainager_id
    /\ \A d \in chat_document : \E r \in chat_ainager : r.ainager_id = d.ainager_id

\* C12: a create that fails between beginTransaction and commit leaves the
\* committed tenant and document tables exactly as they were, closes its
\* transaction and forwards the error of the statement that failed; the
\* committed tables never hold a tenant without a document or a document
\* without its tenant.
C12_UpsertAtomic ==
    /\ []PairsComplete
    /\ [][\A p \in Procs :
             (pc[p] \in TxSteps /\ pc'[p] = "idle" /\ resp'.status # 200)
                 => /\ chat_ainager' = chat_ainager
                    /\ chat_document' = chat_document
                    /\ p \notin openTx'
                    /\ resp' = [email |-> local[p].input.email, status |-> 500,
                                message |-> StepError[pc[p]]]]_vars

\* a commit has failed after both writes while the other create's rows stand
C12_Witness ==
    /\ resp.message = "commit failed"
    /\ Cardinality(chat_ainager) = 1
    /\ Cardinality(chat_document) = 1
    /\ nextDocumentId = 3

\* the request slots whose create is between getConnection and release
Holding == {p \in Procs : pc[p] \in TxSteps}

C14_LookupThenInsertNotAtomic ==
    [][\A p \in Procs :
          /\ (pc[p] = "select" /\ pc'[p] = "ainager")
                 => (local'[p].existingId = 0
                        <=> TenantsNamed(chat_ainager, local[p].ainagerName) = {})
          /\ (pc[p] = "ainager" /\ pc'[p] = "document")
                 => (local'[p].writes[1].kind = "insert_ainager"
                        <=> local[p].existingId = 0)]_vars

\* two committed tenant rows of one name, each with its own document
C14_Witness ==
    /\ \E r1, r2 \in chat_ainager :
          /\ r1.ainager_name = r2.ainager_name
          /\ r1.ainager_id # r2.ainager_id
          /\ r1.corpmail = Email_a
          /\ r2.corpmail = Email_A
    /\ PairsComplete
    /\ \A p \in Procs : pc[p] = "idle"

\* C15: no step changes or removes a committed document row; a create that
\* commits adds exactly one, with a fresh id, whose tenant id is the id the
\* same transaction found or inserted, and that tenant row is committed
\* with it; every document row references a committed tenant row.
C15_OneNewDocumentPerCreate ==
    /\ [](\A d \in chat_document : \E r \in chat_ainager : r.ainager_id = d.ainager_id)
    /\ [][/\ chat_document \subseteq chat_document'
          /\ \A p \in Procs :
                IF Commits(p)
                THEN LET added == chat_document' \ chat_document IN
                     /\ Cardinality(added) = 1
                     /\ \A d \in added :
                           /\ d.document_id = resp'.documentId
                           /\ \A x \in chat_document : x.document_id # d.document_id
                           /\ d.ainager_id = local[p].ainagerId
                           /\ d.ainager_id = resp'.ainagerId
                           /\ \E r \in TenantsNamed(chat_ainager', local[p].ainagerName) :
                                  r.ainager_id = d.ainager_id
                ELSE pc'[p] # pc[p] => chat_document' = chat_document]_vars

\* the second create has found the tenant of the first and added document 2
C15_Witness ==
    /\ resp.status = 200
    /\ "documentId" \in DOMAIN resp
    /\ resp.documentId = 2
    /\ resp.ainagerId = 1
    /\ Cardinality(chat_document) = 2
    /\ Cardinality(chat_ainager) = 1

\* C16: a create that found its tenant row commits that row with the new
\* instruction and artifact path and with its id, name, description, email,
\* creation date, type and active flag as they were; every other tenant
\* row is as it was and no row is added or removed.
C16_UpdateTouchesTwoColumns ==
    [][\A p \in Procs :
          (Commits(p) /\ local[p].writes[1].kind = "update_ainager") =>
              LET id == local[p].ainagerId
                  others(rows) == {r \in rows : r.ainager_id # id}
              IN  /\ others(chat_ainager') = others(chat_ainager)
                  /\ Cardinality(chat_ainager') = Cardinality(chat_ainager)
                  /\ \E old \in chat_ainager, new \in chat_ainager' :
                        /\ old.ainager_id = id
                        /\ new.ainager_id = id
                        /\ new.ainager_name = old.ainager_name
                        /\ new.ainager_description = old.ainager_description
                        /\ new.corpmail = old.corpmail
                        /\ new.ainager_create_date = old.ainager_create_date
                        /\ new.ainager_type = old.ainager_type
                        /\ new.is_active = old.is_active
                        /\ new.ainager_instruction = local[p].input.instruction
                        /\ new.pdf_file = local[p].input.pdfFilePath]_vars

\* a tenant row inserted for one email and page, carrying the instruction
\* of a later create for the other email and page
C16_Witness ==
    /\ Cardinality(chat_ainager) = 1
    /\ Cardinality(chat_document) = 2
    /\ \E r \in chat_ainager :
          /\ r.corpmail = Email_a
          /\ r.ainager_description = "d1"
          /\ r.ainager_instruction[3] = "c2"
    /\ resp.status = 200
    /\ resp.email = Email_A

\* C17: for every email the tenant name of buildAinagerNameFromEmail is the
\* display name deriveTitleFromDomain gives for the email's domain.
C17_TenantNameIsDisplayName ==
    resp.message = "name" => resp.ainagerName = resp.displayName

\* the website summary a response carries for an analysis
InfoOf(a) == [domain |-> a.domain, title |-> a.title, description |-> a.description]

\* C18: the analysis store is keyed by the lower-cased email, so it holds at
\* most one analysis per email whatever the casing; a verify-otp that
\* succeeds replaces the entry of its email by the analysis it returns and
\* leaves the other entries alone; create works on the entry stored for its
\* email and reports it.
C18_LaterVerificationOverwrites ==
    /\ [](\A k \in DOMAIN websiteAnalysisByEmail : k \in Keys)
    /\ [][\A p \in PipelineProcs :
             /\ (pc[p] = "fetch" /\ pc'[p] = "idle" /\ resp'.status = 200)
                    => LET k == KeyOf[local[p].email] IN
                       /\ MapHas(websiteAnalysisByEmail', k)
                       /\ InfoOf(websiteAnalysisByEmail'[k]) = resp'.websiteInfo
                       /\ \A j \in DOMAIN websiteAnalysisByEmail \ {k} :
                             /\ MapHas(websiteAnalysisByEmail', j)
                             /\ websiteAnalysisByEmail'[j] = websiteAnalysisByEmail[j]
             /\ (pc[p] = "idle" /\ pc'[p] = "pdf")
                    => local'[p].analysis = websiteAnalysisByEmail[KeyOf[local'[p].email]]
             /\ Commits(p)
                    => /\ resp'.websiteInfo =
                              InfoOf(websiteAnalysisByEmail[KeyOf[local[p].input.email]])
                       /\ \E d \in chat_document' :
                             /\ d.document_id = resp'.documentId
                             /\ d.llm_description =
                                    websiteAnalysisByEmail[KeyOf[local[p].input.email]].knowledgeBase]_vars

\* the tenant was created from the first page; after a second verification,
\* under the other casing and with the other page, create has used the
\* second analysis
C18_Witness ==
    /\ \E r \in chat_ainager : r.corpmail = Email_a /\ r.ainager_description = "d1"
    /\ \E d \in chat_document : d.document_id = 2 /\ d.description = "d2"
    /\ MapHas(websiteAnalysisByEmail, KeyA)
    /\ websiteAnalysisByEmail[KeyA].description = "d2"
    /\ resp.status = 200
    /\ resp.email = Email_A
    /\ "documentId" \in DOMAIN resp

\* C19: the stored analysis is used up by the create that commits: a create
\* goes on to provision only for an email whose analysis no committed
\* create has used since the verification that stored it.
C19_CreateConsumesAnalysis ==
    [][\A p \in PipelineProcs :
          (pc[p] = "idle" /\ pc'[p] = "pdf")
              => KeyOf[local'[p].email] \notin provisioned]_vars

\* the email of the request that takes this step in slot p
StepEmail(p) ==
    IF pc[p] = "idle"
    THEN IF pc'[p] = "idle" THEN resp'.email ELSE local'[p].email
    ELSE IF local[p].op = "create" THEN CreateEmail(p) ELSE local[p].email

\* the entry of key k, if any, is the same in both maps
SameEntry(m1, m2, k) ==
    /\ MapHas(m1, k) <=> MapHas(m2, k)
    /\ MapHas(m1, k) => m1[k] = m2[k]

\* C20: a step of a request for one email leaves the OTP record and the
\* stored analysis of every other key as they are, and a request is turned
\* away only for the state of its own key: 429 only while its own record
\* is active, "Invalid or expired code" only when the code is not its own
\* stored, unexpired code, "analysis not found" only when its own key has
\* no analysis.
C20_PerEmailIsolation ==
    [][\A p \in PipelineProcs :
          (pc'[p] # pc[p] \/ resp' # resp \/ otpByEmail' # otpByEmail
                \/ websiteAnalysisByEmail' # websiteAnalysisByEmail) =>
              LET e == StepEmail(p)
                  k == KeyOf[e]
              IN  /\ \A j \in Keys \ {k} :
                        /\ SameEntry(otpByEmail, otpByEmail', j)
                        /\ SameEntry(websiteAnalysisByEmail, websiteAnalysisByEmail', j)
                  /\ (pc[p] = "idle" /\ resp'.status = 429) => ActiveRecord(k)
                  /\ (pc[p] = "idle" /\ resp'.message = AnalysisNotFound)
                         => ~MapHas(websiteAnalysisByEmail, k)
                  /\ (pc[p] = "idle" /\ resp'.message = InvalidCode)
                         => \A c \in WellFormedCodes :
                                VerifyOtp(p, e, c) => ~ValidCode(e, c)]_vars

\* a code is issued and sent for one email while the other email has an
\* unconsumed code and a stored analysis
C20_Witness ==
    /\ resp = Reply(Email_a, 200, "true")
    /\ ActiveRecord(KeyA)
    /\ ActiveRecord(KeyOf[Email_c])
    /\ MapHas(websiteAnalysisByEmail, KeyOf[Email_c])
    /\ ~MapHas(websiteAnalysisByEmail, KeyA)

\* the code points one of the stripping or replacing patterns matches
Stripped(c) ==
    \/ inRange(c, 127744, 129535) \/ inRange(c, 9728, 9983)
    \/ inRange(c, 9984, 10175)    \/ inRange(c, 126976, 127023)
    \/ inRange(c, 127136, 127231) \/ inRange(c, 127232, 128591)
    \/ inRange(c, 8192, 8303)

C22_DrawnTextSanitized ==
    resp.message = "drawText" => sanitizeText(resp.text) = resp.text

\* C23: no section heading and no body line is drawn below the bottom
\* margin.
C23_TextAboveBottomMargin ==
    (resp.message = "drawText" /\ resp.kind \in {"heading", "line"}) =>
        resp.y >= Margin

\* the title of the analysis is the one title in the instruction and the
\* knowledge base
TitleUsed(a) == a.instruction[2] = a.title /\ a.knowledgeBase[2] = a.title

\* C24 as stated: a page with no <title> text and no <h1> text has the
\* extracted title "Untitled" and the analysis title displayName(domain);
\* the analysis title is displayName(domain) when the extracted title is
\* the literal "Untitled" and the extracted title otherwise.
C24_ReplacedIffLiteralUntitled ==
    resp.message = "analysis" =>
        LET a == resp.analysis
            displayName == deriveTitleFromDomain(crawlerDomainOf(resp.email))
        IN  /\ (trim(resp.page.title) = <<>> /\ trim(resp.page.h1) = <<>>) =>
                   (resp.extracted = Untitled /\ a.title = displayName)
            /\ a.title = IF resp.extracted = Untitled THEN displayName ELSE resp.extracted
            /\ TitleUsed(a)

\* C24 amended: the analysis title is displayName(domain) when the extracted
\* title is "Untitled" in any casing, and the extracted title otherwise.
C24_ReplacedIffUntitledAnyCase ==
    resp.message = "analysis" =>
        LET a == resp.analysis
            displayName == deriveTitleFromDomain(crawlerDomainOf(resp.email))
        IN  /\ (trim(resp.page.title) = <<>> /\ trim(resp.page.h1) = <<>>) =>
                   (resp.extracted = Untitled /\ a.title = displayName)
            /\ a.title = IF toLowerCase(resp.extracted) = toLowerCase(Untitled)
                         THEN displayName ELSE resp.extracted
            /\ TitleUsed(a)

\* a page titled "UNTITLED" with a heading: the title of the analysis is
\* the display name of the domain
C24_Witness ==
    /\ resp.message = "analysis"
    /\ resp.page.title = <<"U","N","T","I","T","L","E","D">>
    /\ resp.page.h1 = <<"A","c","m","e">>
    /\ resp.email = Email_b
    /\ resp.analysis.title = <<"M","y"," ","Y">>

\* C25: the display name of "my-shop.com" is "My Shop" and the display name
\* of "www.acme.io" is "Acme", in the crawler's derivation and in the tenant
\* repository's.
C25_DisplayNameExamples ==
    resp.message = "name" =>
        /\ crawlerDomainOf(resp.email) = Domain_myShop =>
              /\ resp.displayName = <<"M","y"," ","S","h","o","p">>
              /\ resp.ainagerName = <<"M","y"," ","S","h","o","p">>
        /\ crawlerDomainOf(resp.email) = Domain_wwwAcme =>
              /\ resp.displayName = <<"A","c","m","e">>
              /\ resp.ainagerName = <<"A","c","m","e">>

Domain_acmewidgets == <<"a","c","m","e","w","i","d","g","e","t","s",".","c","o","m">>
Link_Acmewidgets == ShareablePrefix \o <<"A","c","m","e","w","i","d","g","e","t","s">>

\* C26: the shareableLink of a successful create is the link prefix followed
\* by the name of the committed tenant row whose id the response carries;
\* for ceo@acmewidgets.com the domain in the answer of a successful
\* verify-otp is "acmewidgets.com" and the link in the answer of a successful
\* create is https://www.ainager.com/w/Acmewidgets.
C26_ShareableLink ==
    /\ [][\A p \in PipelineProcs :
             Commits(p) =>
                 \E r \in chat_ainager' :
                    /\ r.ainager_id = resp'.ainagerId
                    /\ resp'.ainagerName = r.ainager_name
                    /\ resp'.shareableLink = ShareablePrefix \o r.ainager_name]_vars
    /\ []((resp.status = 200 /\ resp.email = Email_ceo /\ "websiteInfo" \in DOMAIN resp) =>
             IF "shareableLink" \in DOMAIN resp
             THEN resp.shareableLink = Link_Acmewidgets
             ELSE resp.websiteInfo.domain = Domain_acmewidgets)

\* the create of ceo@acmewidgets.com has answered with the link, after the
\* row was inserted by a create for the address in capitals
C26_Witness ==
    /\ resp.status = 200
    /\ resp.email = Email_ceo
    /\ "shareableLink" \in DOMAIN resp
    /\ resp.shareableLink = Link_Acmewidgets
    /\ resp.websiteInfo.domain = Domain_acmewidgets
    /\ \E r \in chat_ainager : r.ainager_id = resp.ainagerId /\ r.corpmail = Email_CEO
    /\ \E f \in files : f.slug = <<"a","c","m","e","w","i","d","g","e","t","s","-","c","o","m">>

\* C27: a verify-otp with well-formed input that fails because no record is
\* stored for the email, because the record has expired or because the
\* code differs from the stored one is answered with status 400 and the one
\* message "Invalid or expired code", whichever of the three it was.
C27_RejectionHidesCause ==
    [][\A p \in Procs, e \in WellFormedEmails, c \in WellFormedCodes :
          LET k == KeyOf[e]
              noRecord == ~MapHas(otpByEmail, k)
              expired == MapHas(otpByEmail, k) /\ now > otpByEmail[k].expiresAt
              mismatch == ActiveRecord(k) /\ otpByEmail[k].code # c
          IN  (/\ StartsIn(p)
               /\ (resp'.email = e \/ pc'[p] # pc[p])
               /\ VerifyOtp(p, e, c)
               /\ noRecord \/ expired \/ mismatch) =>
                  resp' = Reply(e, 400, InvalidCode)]_vars

\* a rejected verify for an email no code was ever stored for
C27_Witness ==
    /\ resp = Reply(Email_a, 400, InvalidCode)
    /\ now = 0
    /\ otpByEmail = EmptyMap
    /\ \A k \in Keys : okSinceIssue[k] = 0

\* C28: the business type is the sentence of the first keyword family, in the
\* order financial, healthcare, technology, consulting, retail, one of whose
\* keywords occurs in the lower-cased content, and the generic sentence when
\* no keyword of any family occurs.
C28_FirstFamilyWins ==
    resp.message = "businessType" =>
        LET lower == toLowerCase(resp.content)
            present == {f \in 1..5 : \E k \in BusinessKeywords[f] :
                                        \E i \in 1..Len(lower) :
                                           /\ i + Len(k) - 1 <= Len(lower)
                                           /\ \A j \in 1..Len(k) : lower[i + j - 1] = k[j]}
        IN  IF present = {}
            THEN resp.businessType = GenericSentence
            ELSE \E f \in present :
                    /\ \A g \in present : f <= g
                    /\ resp.businessType = BusinessSentences[f]

\* retail, technology and healthcare keywords in that order in one content, the
\* last in capitals: the healthcare sentence is the answer
C28_Witness ==
    /\ resp.message = "businessType"
    /\ resp.content = <<"s","h","o","p"," ","a","p","p"," ","C","L","I","N","I","C"," ">>
    /\ resp.businessType = "This appears to be a healthcare provider."

\* C29: the extracted content is the text of one container only, the first
\* element matched by the first of main, .main, .content, .container, body
\* that matches anything, with whitespace collapsed and trimmed, and it is at
\* most 10,000 characters long.
C29_FirstContainerOnly ==
    resp.message = "content" =>
        LET elements == elementsOf(removeElements(resp.body))
            matched(k) ==
                SelectSeq(elements,
                          LAMBDA n : CASE k = 1 -> n.tag = "main"
                                       [] k = 2 -> "main" \in n.class
                                       [] k = 3 -> "content" \in n.class
                                       [] k = 4 -> "container" \in n.class
                                       [] OTHER -> n.tag = "body")
            first == CHOOSE k \in 1..5 :
                        matched(k) # <<>> /\ \A j \in 1..(k - 1) : matched(j) = <<>>
            text == trimWhitespace(normalizeWhitespace(textOf(matched(first)[1])))
        IN  /\ Len(resp.content) <= 10000
            /\ resp.content = SubSeq(text, 1, IF Len(text) < 10000 THEN Len(text) ELSE 10000)

\* C30: no step of a request is taken twice. A verify-otp with the valid code
\* goes to the website fetch; the fetch step ends the request, and a fetch
\* that throws ends it with the 400 answer and nothing stored; a create goes
\* through artifact generation, connect, select, the two writes and commit
\* in that order, each step leading to a later one or to the end of the
\* request, never back and never to itself.
C30_NoRetries ==
    [][\A p \in PipelineProcs :
          LET rank(step) == CASE step = "idle" -> 0
                              [] step \in {"save", "fetch", "pdf"} -> 1
                              [] step \in {"send", "connect"} -> 2
                              [] step = "select" -> 3
                              [] step = "ainager" -> 4
                              [] step = "document" -> 5
                              [] OTHER -> 6
          IN  /\ \A e \in PipelineEmails, c \in Codes :
                    (pc[p] = "idle" /\ ValidCode(e, c) /\ VerifyOtp(p, e, c)) =>
                        pc'[p] = "fetch"
              /\ (pc[p] = "fetch" /\ now' = now) =>
                    /\ pc'[p] = "idle"
                    /\ resp' # NoResp
              /\ (pc[p] = "fetch" /\ VerifyFetch(p, FetchError)) =>
                    /\ resp' = Reply(local[p].email, 400, AnalysisFailed)
                    /\ websiteAnalysisByEmail' = websiteAnalysisByEmail
              /\ (pc[p] # "idle" /\ now' = now) =>
                    \/ pc'[p] = "idle"
                    \/ rank(pc'[p]) > rank(pc[p])]_vars

\* a fetch that threw has ended its request: the 400 answer, the slot free,
\* no analysis stored although the code was accepted
C30_Witness ==
    /\ resp = Reply(Email_a, 400, AnalysisFailed)
    /\ \A p \in PipelineProcs : pc[p] = "idle"
    /\ toLowerCase(Email_a) \in verifiedOk
    /\ websiteAnalysisByEmail = EmptyMap

\* C31: every record of the OTP store holds a code of exactly six characters,
\* each one of the digits 0 to 9, and a record that enters the store or
\* replaces another expires five minutes (OtpTtl) after the time it is stored.
C31_RecordShape ==
    /\ [](\A k \in DOMAIN otpByEmail :
             /\ Len(otpByEmail[k].code) = 6
             /\ \A i \in 1..Len(otpByEmail[k].code) :
                   otpByEmail[k].code[i] \in {"0","1","2","3","4","5","6","7","8","9"})
    /\ [][\A k \in DOMAIN otpByEmail' :
             (k \notin DOMAIN otpByEmail \/ otpByEmail'[k] # otpByEmail[k]) =>
                 otpByEmail'[k].expiresAt = now + 1]_vars

\* the code 000000 stored after the code 999999 was delivered and expired
C31_Witness ==
    /\ MapHas(otpByEmail, toLowerCase(Email_a))
    /\ otpByEmail[toLowerCase(Email_a)].code = <<"0","0","0","0","0","0">>
    /\ otpByEmail[toLowerCase(Email_a)].expiresAt = 3
    /\ <<Email_a, <<"9","9","9","9","9","9">>>> \in sent

\* the lower-cased domain of an address, and the words of its first label:
\* the label cut at every run of "-" and "_"
DomainLower(e) == toLowerCase(split(e, "@")[2])
LabelWords(e) ==
    LET label == split(DomainLower(e), ".")[1]
        cut == [i \in 1..Len(label) |-> IF label[i] \in {"-", "_"} THEN " " ELSE label[i]]
    IN  SelectSeq(split(cut, " "), LAMBDA w : w # <<>>)
\* the committed rows the create in slot p updates when it commits
UpdatedRows(p) ==
    {r \in chat_ainager :
        \E i \in 1..Len(local[p].writes) :
           /\ local[p].writes[i].kind = "update_ainager"
           /\ local[p].writes[i].id = r.ainager_id}

\* C32 as stated: a create that commits updates only a tenant row created
\* for the same lower-cased domain as its own email.
C32_UpdateOnlySameDomain ==
    [][\A p \in PipelineProcs :
          Commits(p) =>
              \A r \in UpdatedRows(p) :
                 DomainLower(r.corpmail) = DomainLower(local[p].input.email)]_vars

\* C32 as amended: a create that commits updates only a tenant row created
\* for a domain whose first label has the same words as the first label of
\* its own domain.
C32_UpdateOnlySameFirstLabel ==
    [][\A p \in PipelineProcs :
          Commits(p) =>
              \A r \in UpdatedRows(p) :
                 LabelWords(r.corpmail) = LabelWords(local[p].input.email)]_vars

\* the row created for a@x.io carries the artifact of x.co after a@x.co was
\* provisioned: both domains have the first label "x"
C32_Witness ==
    /\ resp.status = 200 /\ resp.email = Email_xco /\ "ainagerId" \in DOMAIN resp
    /\ \E r \in chat_ainager :
          /\ r.corpmail = Email_a
          /\ r.ainager_id = resp.ainagerId
          /\ r.pdf_file = pdfPathOf(DomainLower(Email_xco), now)

\* C33: the code is in the store before the delivery is tried; a delivery
\* that throws fails the request and leaves the store as it is; and while a
\* record of which no code was ever delivered is active, a request-otp for
\* its email is answered 429.
C33_FailedDeliveryKeepsRecord ==
    [][\A p \in Procs :
          /\ (pc[p] = "save" /\ pc'[p] = "send") =>
                /\ MapHas(otpByEmail', toLowerCase(local'[p].email))
                /\ otpByEmail'[toLowerCase(local'[p].email)].code = local'[p].code
                /\ sent' = sent
          /\ sent' # sent =>
                \E q \in Procs :
                   /\ pc[q] = "send"
                   /\ sent' = sent \cup {<<local[q].email, local[q].code>>}
          /\ (pc[p] = "send" /\ pc'[p] = "idle" /\ resp'.status # 200) =>
                /\ resp' = Forward(local[p].email, "sendOtp failed")
                /\ otpByEmail' = otpByEmail
          /\ \A e \in WellFormedEmails :
                (/\ ActiveRecord(KeyOf[e])
                 /\ \A m \in sent : toLowerCase(m[1]) # KeyOf[e]
                 /\ StartsIn(p)
                 /\ ReqOtpCheck(p, e)) =>
                    /\ resp' = Reply(e, 429, "OTP already sent. Please wait a few minutes before requesting another.")
                    /\ otpByEmail' = otpByEmail]_vars

\* a request answered 429 for an email to which nothing was ever delivered
C33_Witness ==
    /\ resp.status = 429
    /\ resp.email = Email_a
    /\ ActiveRecord(KeyA)
    /\ sent = {}
    /\ \A p \in Procs : pc[p] = "idle"

\* C34: a request-otp for a company email whose record has expired passes
\* the active-code check, whether the stale record is still in the store or
\* not; the save that follows puts the new code and a new expiry in the
\* place of whatever was stored; and from then on a verify is accepted only
\* with the code of the record in the store, so a code issued earlier, unless
\* it is the same six digits, is rejected.
C34_ReissueReplacesStale ==
    [][\A p \in Procs :
          /\ \A e \in WellFormedEmails :
                (/\ isCompanyEmailOf[e]
                 /\ ~ActiveRecord(KeyOf[e])
                 /\ StartsIn(p)
                 /\ (resp'.email = e \/ pc'[p] # pc[p])
                 /\ ReqOtpCheck(p, e)) =>
                    /\ pc'[p] = "save"
                    /\ local'[p].email = e
          /\ (pc[p] = "save" /\ pc'[p] = "send") =>
                otpByEmail'[toLowerCase(local[p].email)] =
                    [code |-> local'[p].code, expiresAt |-> now + 1]
          /\ \A e \in WellFormedEmails, c \in WellFormedCodes :
                (/\ StartsIn(p)
                 /\ (resp'.email = e \/ pc'[p] # pc[p])
                 /\ VerifyOtp(p, e, c)
                 /\ \/ ~MapHas(otpByEmail, KeyOf[e])
                    \/ otpByEmail[KeyOf[e]].code # c) =>
                    /\ resp' = Reply(e, 400, InvalidCode)
                    /\ pc'[p] = "idle"]_vars

\* two different codes were delivered to one address, the second after the
\* first expired; the record holds the second and a verify was just rejected
C34_Witness ==
    /\ {m[2] : m \in {x \in sent : x[1] = Email_a}} = {CodeOf(7), CodeOf(123456)}
    /\ ActiveRecord(KeyA)
    /\ otpByEmail[KeyA].expiresAt >= 2
    /\ resp = Reply(Email_a, 400, InvalidCode)

\* C35: the OTP store and the analysis store hold one entry per mailbox, under
\* the lower-cased address. For two addresses that differ only in the case
\* of their letters: the code delivered to one is accepted from the other
\* while it is the active code, a request-otp from either is answered 429
\* while that code is active, and a create from either takes the analysis
\* stored under the common key, whichever address it was stored for.
C35_LowerCasedKeys ==
    /\ [](/\ \A k \in DOMAIN otpByEmail : k = toLowerCase(k)
          /\ \A k \in DOMAIN websiteAnalysisByEmail : k = toLowerCase(k))
    /\ [][\A p \in PipelineProcs, e \in CaseEmails :
             LET k == toLowerCase(e) IN
             /\ \A other \in CaseEmails, c \in WellFormedCodes :
                   (/\ toLowerCase(other) = k
                    /\ <<other, c>> \in sent
                    /\ ActiveRecord(k) /\ otpByEmail[k].code = c
                    /\ pc[p] = "idle"
                    /\ VerifyOtp(p, e, c)) =>
                       pc'[p] = "fetch" /\ local'[p].email = e
             /\ (/\ \E other \in CaseEmails, c \in WellFormedCodes :
                       /\ <<other, c>> \in sent
                       /\ ActiveRecord(toLowerCase(other))
                       /\ toLowerCase(other) = k
                 /\ pc[p] = "idle"
                 /\ ReqOtpCheck(p, e)) =>
                    resp'.status = 429 /\ resp'.email = e
             /\ (/\ MapHas(websiteAnalysisByEmail, k)
                 /\ pc[p] = "idle"
                 /\ CreateStart(p, e)) =>
                    /\ pc'[p] = "pdf"
                    /\ local'[p].email = e
                    /\ local'[p].analysis = websiteAnalysisByEmail[k]]_vars

\* the create for a@x.io has answered with the analysis stored when the code
\* delivered to a@x.io was verified as A@X.io: its domain reads X.io
C35_Witness ==
    /\ resp.status = 200
    /\ resp.email = Email_a
    /\ "ainagerId" \in DOMAIN resp
    /\ resp.websiteInfo.domain = <<"X",".","i","o">>
    /\ \A m \in sent : m[1] = Email_a

\* C36: the step in which a create fails, in the artifact generation or
\* anywhere in the tenant upsert, leaves the OTP store and the analysis store
\* as they were, with the analysis the create read still stored for its
\* email; it removes no file, the file the run wrote included, and it adds,
\* changes and removes no row, so the run leaves no row referencing its file.
C36_FailedCreateKeepsAnalysis ==
    [][\A p \in PipelineProcs :
          (/\ pc[p] \in {"pdf", "connect", "select", "ainager", "document", "commit"}
           /\ pc'[p] = "idle"
           /\ resp'.status # 200) =>
              LET k == toLowerCase(CreateEmail(p)) IN
              /\ otpByEmail' = otpByEmail
              /\ websiteAnalysisByEmail' = websiteAnalysisByEmail
              /\ MapHas(websiteAnalysisByEmail', k)
              /\ websiteAnalysisByEmail'[k] = local[p].analysis
              /\ files' = files
              /\ pc[p] # "pdf" => local[p].input.pdfFilePath \in files'
              /\ chat_ainager' = chat_ainager
              /\ chat_document' = chat_document]_vars

\* a create has succeeded with tenant id 2 as the only tenant row: the
\* insert of id 1 belonged to a create that failed, and the one code ever
\* delivered was verified once
C36_Witness ==
    /\ resp.status = 200
    /\ "ainagerId" \in DOMAIN resp
    /\ resp.ainagerId = 2
    /\ Cardinality(chat_ainager) = 1
    /\ Cardinality(sent) = 1
    /\ \A k \in Keys : okSinceIssue[k] <= 1
    /\ files # {}

\* C37: once simulateProgress has started and no timer is left to fire, every
\* one of the four steps has been marked completed and none is active, and
\* the screen shown is "success"; while timers fire, the steps become active
\* in their order.
C37_ProgressEndsInSuccess ==
    LET page == local["r1"] IN
    (page.op = "page" /\ page.currentScreen # "email" /\ page.currentScreen # "otp") =>
        /\ \A i \in 1..4 :
              page.progressSteps[i].active =>
                 /\ \A j \in 1..(i - 1) : page.progressSteps[j].completed
                 /\ \A j \in (i + 1)..4 : ~page.progressSteps[j].active
        /\ page.timers = {} =>
              /\ \A i \in 1..4 : page.progressSteps[i] = [completed |-> TRUE, active |-> FALSE]
              /\ page.currentScreen = "success"

\* C38: on the page that talks to the server, the success screen is shown
\* only after the create request was answered successfully, and the link the
\* screen then shows is the shareableLink of that answer; after a failed
\* create the success screen is not shown.
C38_SuccessOnlyAfterCreate ==
    LET page == local["r1"] IN
    (page.op = "apiPage" /\ page.currentScreen = "success") =>
        /\ resp.status = 200
        /\ "shareableLink" \in DOMAIN resp
        /\ page.generatedLink = resp.shareableLink

====
